---------------------------- MODULE Spec2Model ----------------------------
(***************************************************************************)
(* A model of the UNO leaderboard's rating pipeline: the ranking           *)
(* normalizer, the pairwise Elo engine, the expected-rank (CF) engine, the *)
(* OpenSkill adapter, the Whole-History Rating solver and the submitGame   *)
(* server action that persists their results.                              *)
(*                                                                         *)
(* Numbers.  The code computes in IEEE doubles; the model computes in      *)
(* integers.  A normalized position is kept as the exact fraction          *)
(* num/den.  Expected scores, K-factors and deltas are fixed-point         *)
(* integers whose scales are named below.                                  *)
(***************************************************************************)
EXTENDS Integers, Sequences, FiniteSets, TLC

(***************************************************************************)
(* Bounds of the model.                                                    *)
(***************************************************************************)
NumPlayers == 2
MaxLen == 3
MaxPos == 3
MaxField == 3
MaxGames == 2
MaxFaults == 1
MaxCalls == 2
MaxGamesPlayed == 40
MaxLevel == 2

PlayerIds == 1..NumPlayers

(***************************************************************************)
(* Generic helpers.                                                        *)
(***************************************************************************)
RECURSIVE SumSeq(_)
SumSeq(s) == IF s = <<>> THEN 0 ELSE Head(s) + SumSeq(Tail(s))

RangeOf(s) == {s[i] : i \in DOMAIN s}

Abs(x) == IF x < 0 THEN -x ELSE x

\* Math.round on the fixed-point value v/d: the nearest integer, halves up.
MathRound(v, d) ==
  LET q == v \div d
      rest == v - q * d
  IN  IF 2 * rest >= d THEN q + 1 ELSE q

(***************************************************************************)
(* lib/ranking.ts: normalizeRankings.                                      *)
(***************************************************************************)
\* A number compared as the code compares positions: a.num/a.den < b.num/b.den.
PosLess(a, b) == a.num * b.den < b.num * a.den
PosEq(a, b) == a.num * b.den = b.num * a.den
PosOfInt(n) == [num |-> n, den |-> 1]

\* playerPositions[playerId]: the positions pushed for one player, in input order.
RECURSIVE playerPositions(_, _)
playerPositions(rawRankings, playerId) ==
  IF rawRankings = <<>> THEN <<>>
  ELSE LET r == Head(rawRankings)
           rest == playerPositions(Tail(rawRankings), playerId)
       IN  IF r.playerId = playerId THEN <<r.position>> \o rest ELSE rest

\* Object.keys(playerPositions): the distinct players in order of first appearance.
RECURSIVE ObjectKeys(_, _)
ObjectKeys(rawRankings, seen) ==
  IF rawRankings = <<>> THEN <<>>
  ELSE LET p == Head(rawRankings).playerId
       IN  IF p \in seen THEN ObjectKeys(Tail(rawRankings), seen)
           ELSE <<p>> \o ObjectKeys(Tail(rawRankings), seen \cup {p})

\* positions.sort((a, b) => a - b)
RECURSIVE InsertAsc(_, _)
InsertAsc(x, sorted) ==
  IF sorted = <<>> THEN <<x>>
  ELSE IF x < Head(sorted) THEN <<x>> \o sorted
       ELSE <<Head(sorted)>> \o InsertAsc(x, Tail(sorted))

RECURSIVE SortAsc(_)
SortAsc(s) == IF s = <<>> THEN <<>> ELSE InsertAsc(s[Len(s)], SortAsc(SubSeq(s, 1, Len(s) - 1)))

\* avg = sum / positions.length, kept as the exact fraction.
AverageNoDivision(positions) == [num |-> SumSeq(positions), den |-> 1]
AverageIntegerDivision(positions) ==
  [num |-> SumSeq(positions) \div Len(positions), den |-> 1]
Average(positions) == [num |-> SumSeq(positions), den |-> Len(positions)]

NormalizedRecordUnsortedRaw(rawRankings, playerId) ==
  LET positions == playerPositions(rawRankings, playerId)
  IN  [playerId |-> playerId,
       normalizedPosition |-> Average(positions),
       rawPositions |-> positions]
NormalizedRecord(rawRankings, playerId) ==
  LET positions == playerPositions(rawRankings, playerId)
  IN  [playerId |-> playerId,
       normalizedPosition |-> Average(positions),
       rawPositions |-> SortAsc(positions)]

\* Array.prototype.sort is stable: x goes after every element that is not
\* greater than it.
RECURSIVE InsertByPosition(_, _)
InsertByPosition(x, sorted) ==
  IF sorted = <<>> THEN <<x>>
  ELSE IF PosLess(x.normalizedPosition, Head(sorted).normalizedPosition)
       THEN <<x>> \o sorted
       ELSE <<Head(sorted)>> \o InsertByPosition(x, Tail(sorted))

RECURSIVE SortByNormalizedPosition(_)
SortByNormalizedPosition(s) ==
  IF s = <<>> THEN <<>>
  ELSE InsertByPosition(s[Len(s)], SortByNormalizedPosition(SubSeq(s, 1, Len(s) - 1)))

normalizeRankingsUnsorted(rawRankings) ==
  LET keys == ObjectKeys(rawRankings, {})
  IN  [i \in 1..Len(keys) |-> NormalizedRecord(rawRankings, keys[i])]
normalizeRankings(rawRankings) ==
  LET keys == ObjectKeys(rawRankings, {})
  IN  SortByNormalizedPosition([i \in 1..Len(keys) |-> NormalizedRecord(rawRankings, keys[i])])

(***************************************************************************)
(* lib/elo.ts: getKFactor, getExpectedScore, calculateEloChanges.          *)
(*                                                                         *)
(* An expected score is an integer number of 1/ScoreScale, a K-factor an   *)
(* integer number of 1/KScale, an unrounded delta an integer number of     *)
(* 1/DeltaScale.  ScoreScale = 2 * 11 * 101 * 10 makes 1/(1 + 10^q) exact  *)
(* for q in -2..2, so ratings that differ by multiples of 400 have exact   *)
(* expected scores.                                                        *)
(***************************************************************************)
K_MIN == 16
K_MAX == 32
K_DECAY_RATE == 20
EloDivisor == 400
DefaultRating == 1000

ScoreScale == 2 * 11 * 101 * 10
KScale == 10 * 10
PowScale == 10 * 10 * 10
ExpScale == 10 * 10 * 10 * 10
DeltaScale == KScale * ScoreScale

\* Math.exp(-1 / K_DECAY_RATE) in 1/ExpScale, by its Taylor series to the
\* cubic term: 0.9512.
ExpNegStep ==
  LET d == K_DECAY_RATE
  IN  ExpScale - ExpScale \div d + ExpScale \div (2 * d * d) - ExpScale \div (6 * d * d * d)

\* Math.exp(-gamesPlayed / K_DECAY_RATE) in 1/ExpScale: e^(-1/20) raised to
\* the power gamesPlayed, rounded at each step.
RECURSIVE ExpNeg(_)
ExpNeg(n) ==
  IF n <= 0 THEN ExpScale
  ELSE (ExpNeg(n - 1) * ExpNegStep + ExpScale \div 2) \div ExpScale

getKFactorConstant(gamesPlayed) == K_MAX * KScale
getKFactor(gamesPlayed) ==
  K_MIN * KScale + ((K_MAX - K_MIN) * KScale * ExpNeg(gamesPlayed)) \div ExpScale

\* app/game/[id]/page.tsx, getKFactor: 16 + 16 * Math.exp(-gamesPlayed / 20),
\* written with its own literals.  Math.exp as above, for the page's divisor.
PageKFloor == 16
PageKSpan == 16
PageDecay == 20

RECURSIVE PageExpNeg(_)
PageExpNeg(n) ==
  LET d == PageDecay
      step == ExpScale - ExpScale \div d + ExpScale \div (2 * d * d)
                - ExpScale \div (6 * d * d * d)
  IN  IF n <= 0 THEN ExpScale
      ELSE (PageExpNeg(n - 1) * step + ExpScale \div 2) \div ExpScale

getKFactorOnPage(gamesPlayed) ==
  PageKFloor * KScale + (PageKSpan * KScale * PageExpNeg(gamesPlayed)) \div ExpScale

\* 10^(k/16) for k = 0..16, in 1/PowScale.
Pow10Knots ==
  <<1000, 1155, 1334, 1540, 1778, 2054, 2371, 2738, 3162,
    3652, 4217, 4870, 5623, 6494, 7499, 8660, 10000>>

RECURSIVE TenTo(_)
TenTo(q) == IF q <= 0 THEN 1 ELSE 10 * TenTo(q - 1)

\* Math.pow(10, d / 400) in 1/PowScale: d = 400 q + r with 0 <= r < 400, the
\* power of ten exact and 10^(r/400) read off the knots (one every 25 rating
\* points, linear in between).
Pow10(d) ==
  LET q == d \div EloDivisor
      r == d % EloDivisor
      k == r \div 25
      lo == Pow10Knots[k + 1]
      hi == Pow10Knots[k + 2]
      frac == lo + ((hi - lo) * (r % 25)) \div 25
  IN  IF q >= 0 THEN frac * TenTo(q) ELSE frac \div TenTo(-q)

\* The variant expects an even score whatever the ratings.
getExpectedScoreEven(playerElo, opponentElo) == ScoreScale \div 2

getExpectedScore(playerElo, opponentElo) ==
  (ScoreScale * PowScale) \div (PowScale + Pow10(opponentElo - playerElo))

\* s1 of one pairwise match, in 1/ScoreScale.
ActualScoreTieIsLoss(p1, p2) ==
  IF PosLess(p1.position, p2.position) THEN ScoreScale ELSE 0
ActualScore(p1, p2) ==
  IF PosLess(p1.position, p2.position) THEN ScoreScale
  ELSE IF PosLess(p2.position, p1.position) THEN 0
  ELSE ScoreScale \div 2

\* change1 = k1 * (s1 - expected1), in 1/DeltaScale.
PairChange(p1, p2) ==
  getKFactor(p1.gamesPlayed) * (ActualScore(p1, p2) - getExpectedScore(p1.elo, p2.elo))

\* for (i = 0; i < n; i++) for (j = i + 1; j < n; j++): the pairs in loop order.
RECURSIVE PairsFrom(_, _, _)
PairsFrom(i, j, n) ==
  IF i >= n THEN <<>>
  ELSE IF j > n THEN PairsFrom(i + 1, i + 2, n)
       ELSE <<<<i, j>>>> \o PairsFrom(i, j + 1, n)

\* The inner loop started at 0 instead of i + 1: every ordered pair.
PairLoopInnerFromZero(n) ==
  [k \in 1..(n * n) |-> <<((k - 1) \div n) + 1, ((k - 1) % n) + 1>>]
PairLoop(n) == PairsFrom(1, 2, n)

\* eloChanges[p1.id] += change1; eloChanges[p2.id] += change2
AddPair(eloChanges, p1, p2) ==
  LET one == [eloChanges EXCEPT ![p1.id] = @ + PairChange(p1, p2)]
  IN  [one EXCEPT ![p2.id] = @ + PairChange(p2, p1)]

RECURSIVE AddPairs(_, _, _)
AddPairs(eloChanges, players, pairs) ==
  IF pairs = <<>> THEN eloChanges
  ELSE AddPairs(AddPair(eloChanges, players[Head(pairs)[1]], players[Head(pairs)[2]]),
                players, Tail(pairs))

IdsOf(players) == {players[i].id : i \in DOMAIN players}

\* eloChanges before the rounding loop.
\* The variant divides each total by the number of opponents.
UnroundedEloChangesAveraged(players) ==
  LET total == AddPairs([id \in IdsOf(players) |-> 0], players, PairLoop(Len(players)))
  IN  [id \in DOMAIN total |-> total[id] \div (IF Len(players) > 1 THEN Len(players) - 1 ELSE 1)]

UnroundedEloChanges(players) ==
  AddPairs([id \in IdsOf(players) |-> 0], players, PairLoop(Len(players)))

\* eloChanges[id] = Math.round(eloChanges[id])
RoundChanges(eloChanges) ==
  [id \in DOMAIN eloChanges |-> MathRound(eloChanges[id], DeltaScale)]

calculateEloChanges(players) == RoundChanges(UnroundedEloChanges(players))

(***************************************************************************)
(* lib/multiplayer.ts: pBeat, calculateCFChanges.                          *)
(***************************************************************************)
pBeat(ratingJ, ratingI) ==
  (ScoreScale * PowScale) \div (PowScale + Pow10(ratingI - ratingJ))

\* The variant has no continue: the player counts as its own opponent.
RECURSIVE ExpectedRankOverAll(_, _, _)
ExpectedRankOverAll(player, players, i) ==
  IF i > Len(players) THEN ScoreScale
  ELSE pBeat(players[i].rating, player.rating) + ExpectedRankOverAll(player, players, i + 1)

\* expectedRank = 1 + sum over the others of pBeat(other.rating, player.rating),
\* in 1/ScoreScale.
RECURSIVE ExpectedRankOver(_, _, _)
ExpectedRankOver(player, players, i) ==
  IF i > Len(players) THEN ScoreScale
  ELSE (IF players[i].id = player.id THEN 0 ELSE pBeat(players[i].rating, player.rating))
         + ExpectedRankOver(player, players, i + 1)

\* delta = k * (expectedRank - player.position), the fraction num/den.  The
\* variant subtracts the other way round.
DeltaReversed(player, players) ==
  LET k == getKFactor(player.gamesPlayed)
      den == player.position.den
      num == player.position.num
  IN  [num |-> k * (num * ScoreScale - ExpectedRankOver(player, players, 1) * den),
       den |-> den * DeltaScale]

Delta(player, players) ==
  LET k == getKFactor(player.gamesPlayed)
      den == player.position.den
      num == player.position.num
  IN  [num |-> k * (ExpectedRankOver(player, players, 1) * den - num * ScoreScale),
       den |-> den * DeltaScale]

\* Math.round(delta)
CFChange(player, players) ==
  MathRound(Delta(player, players).num, Delta(player, players).den)

\* changes[player.id] is assigned once per list entry; the last one stays.
calculateCFChanges(players) ==
  [id \in IdsOf(players) |->
     LET last == CHOOSE i \in DOMAIN players :
                   /\ players[i].id = id
                   /\ \A j \in DOMAIN players : players[j].id = id => j <= i
     IN  CFChange(players[last], players)]

(***************************************************************************)
(* lib/whr.ts: computeWHR.                                                 *)
(*                                                                         *)
(* A latent value r is an integer number of 1/RScale (milli-nats).         *)
(* Strengths, fractions, gradients and Hessians are integer numbers of     *)
(* 1/Million.  A timestamp is a number of ticks, TicksPerDay to the day.   *)
(* Where the doubles of the code settle (a history with a prior), the      *)
(* model returns the same ratings; where they run off until the Hessian    *)
(* guard stops them (a player who only wins or only loses), the model      *)
(* stops within a few hundred rating points of the code, on the same side. *)
(***************************************************************************)
W2_PER_DAY_TENTHS == 3
ITERATIONS == 100
HessianThresholdInverse == 1000000
EloPerNat == 17372

Million == 1000 * 1000
RScale == 10 * 10 * 10
TicksPerDay == 2 * 2
HalfDay == TicksPerDay \div 2

Max2(a, b) == IF a >= b THEN a ELSE b

\* floor(a * 10^n / c) by long division, for c > 0.
RECURSIVE LongDiv(_, _, _, _)
LongDiv(q, rem, c, n) ==
  IF n = 0 THEN q ELSE LongDiv(10 * q + (10 * rem) \div c, (10 * rem) % c, c, n - 1)

ScaledDiv(a, c, n) == LongDiv(a \div c, a % c, c, n)

\* a * 10^n / c to the nearest integer, for c > 0.
NearestScaledDiv(a, c, n) == MathRound(ScaledDiv(a, c, n + 1), 10)

\* floor(a * b / Million) for 0 <= a, b <= Million.
MulMillionth(a, b) ==
  LET t == a * (b \div 1000)
  IN  (t \div 1000) + (((t % 1000) * 1000) + (a * (b % 1000))) \div Million

\* e^(-k/20) for k = 0..20 and e^(-q) for q = 0..15, in 1/Million.
ExpTwentieths ==
  <<1000000, 951229, 904837, 860708, 818731, 778801, 740818, 704688, 670320,
    637628, 606531, 576950, 548812, 522046, 496585, 472367, 449329, 427415,
    406570, 386741, 367879>>
ExpWhole ==
  <<1000000, 367879, 135335, 49787, 18316, 6738, 2479, 912, 335, 123, 45, 17, 6, 2, 1, 0>>

\* Math.exp(-x / RScale) in 1/Million, for x >= 0: the whole nats and the
\* twentieths from the tables, linear within a twentieth.
ExpOfMinus(x) ==
  LET q == x \div RScale
      m == x % RScale
      k == m \div 50
      lo == ExpTwentieths[k + 1]
      hi == ExpTwentieths[k + 2]
      base == lo - ((lo - hi) * (m % 50)) \div 50
  IN  IF q >= Len(ExpWhole) - 1 THEN 0 ELSE MulMillionth(base, ExpWhole[q + 1])

\* logToElo: Math.round(1000 + r * 400 / Math.log(10))
logToElo(r) == MathRound(DefaultRating * 100 * RScale + r * EloPerNat, 100 * RScale)

\* [...games].sort((a, b) => a.playedAt - b.playedAt), stable.
RECURSIVE InsertByPlayedAt(_, _)
InsertByPlayedAt(g, sorted) ==
  IF sorted = <<>> THEN <<g>>
  ELSE IF g.playedAt < Head(sorted).playedAt THEN <<g>> \o sorted
       ELSE <<Head(sorted)>> \o InsertByPlayedAt(g, Tail(sorted))

RECURSIVE SortByPlayedAt(_)
SortByPlayedAt(games) ==
  IF games = <<>> THEN <<>>
  ELSE InsertByPlayedAt(games[Len(games)], SortByPlayedAt(SubSeq(games, 1, Len(games) - 1)))

\* sorted: the games by timestamp.  The variant leaves them in array order.
SortedGamesAsGiven(games) == games
SortedGames(games) == SortByPlayedAt(games)

\* allPids: a Set iterates in insertion order.
RECURSIVE ListPids(_, _)
ListPids(entries, seen) ==
  IF entries = <<>> THEN <<>>
  ELSE LET p == Head(entries).playerId
       IN  IF p \in seen THEN ListPids(Tail(entries), seen)
           ELSE <<p>> \o ListPids(Tail(entries), seen \cup {p})

RECURSIVE AllEntries(_)
AllEntries(sorted) ==
  IF sorted = <<>> THEN <<>> ELSE Head(sorted).players \o AllEntries(Tail(sorted))

allPids(sorted) == ListPids(AllEntries(sorted), {})

\* pGames[pid]: the indices of the games the player appears in, one per
\* appearance.
RECURSIVE pGamesFrom(_, _, _)
pGamesFrom(sorted, pid, gi) ==
  IF gi > Len(sorted) THEN <<>>
  ELSE [k \in 1..Len(SelectSeq(sorted[gi].players, LAMBDA p : p.playerId = pid)) |-> gi]
         \o pGamesFrom(sorted, pid, gi + 1)

pGames(sorted, pid) == pGamesFrom(sorted, pid, 1)

\* pDays[pid][i]: Math.max(0.5, days between the two games), in ticks.
pDays(sorted, pid) ==
  LET gis == pGames(sorted, pid)
  IN  [i \in 1..(Len(gis) - 1) |->
         Max2(HalfDay, sorted[gis[i + 1]].playedAt - sorted[gis[i]].playedAt)]

\* array.indexOf(x): the first index holding x.
IndexOf(seq, x) == CHOOSE i \in DOMAIN seq : seq[i] = x /\ \A j \in 1..(i - 1) : seq[j] # x

\* r[pid] = new Array(pGames[pid].length).fill(0)
InitialR(sorted) ==
  [pid \in RangeOf(allPids(sorted)) |-> [i \in 1..Len(pGames(sorted, pid)) |-> 0]]

\* parts.sort((a, b) => a.pos - b.pos), stable.  Ties sorted by player id
\* instead of kept in list order: the variant a symmetric treatment would need.
RECURSIVE InsertByPos(_, _)
InsertByPos(x, sorted) ==
  IF sorted = <<>> THEN <<x>>
  ELSE IF PosLess(x.pos, Head(sorted).pos) THEN <<x>> \o sorted
       ELSE <<Head(sorted)>> \o InsertByPos(x, Tail(sorted))

\* The variant leaves the participants in the order of the players array.
SortByPosAsListed(parts) == parts

RECURSIVE SortByPos(_)
SortByPos(parts) ==
  IF parts = <<>> THEN <<>>
  ELSE InsertByPos(parts[Len(parts)], SortByPos(SubSeq(parts, 1, Len(parts) - 1)))

\* parts: every participant of the game with its position and its latent
\* value at that game (gamma = Math.exp of it), sorted by position.
Parts(sorted, r, gi) ==
  LET players == sorted[gi].players
  IN  SortByPos([i \in DOMAIN players |->
        [pid |-> players[i].playerId,
         pos |-> players[i].position,
         rv |-> r[players[i].playerId][IndexOf(pGames(sorted, players[i].playerId), gi)]]])

RECURSIVE MaxRv(_, _, _)
MaxRv(parts, k, best) ==
  IF k > Len(parts) THEN best ELSE MaxRv(parts, k + 1, Max2(best, parts[k].rv))

\* poolSum at round k: the strengths of parts[k..], each relative to the
\* strength e^top (the code divides strength by poolSum, so the common factor
\* cancels).
RECURSIVE PoolSum(_, _, _)
PoolSum(parts, k, top) ==
  IF k > Len(parts) THEN 0 ELSE ExpOfMinus(top - parts[k].rv) + PoolSum(parts, k + 1, top)

\* frac = gi_strength / poolSum at round k, in 1/Million.
Frac(parts, k, ri) ==
  LET top == MaxRv(parts, k, ri)
  IN  NearestScaledDiv(ExpOfMinus(top - ri), PoolSum(parts, k, top), 6)

\* The variant has no break: the rounds after the one that selects the player
\* are accumulated too.
RECURSIVE GameTermFromNoBreak(_, _, _, _, _)
GameTermFromNoBreak(parts, pid, ri, k, acc) ==
  IF k > Len(parts) - 1 THEN acc
  ELSE LET frac == Frac(parts, k, ri)
           chosen == parts[k].pid = pid
       IN  GameTermFromNoBreak(parts, pid, ri, k + 1,
             [grad |-> acc.grad + (IF chosen THEN Million - frac ELSE -frac),
              hess |-> acc.hess - MulMillionth(frac, Million - frac)])

\* The Plackett-Luce loop from round k on: grad and hess of the game term.
RECURSIVE GameTermFrom(_, _, _, _, _)
GameTermFrom(parts, pid, ri, k, acc) ==
  IF k > Len(parts) - 1 THEN acc
  ELSE LET frac == Frac(parts, k, ri)
           chosen == parts[k].pid = pid
           next == [grad |-> acc.grad + (IF chosen THEN Million - frac ELSE -frac),
                    hess |-> acc.hess - MulMillionth(frac, Million - frac)]
       IN  IF chosen THEN next ELSE GameTermFrom(parts, pid, ri, k + 1, next)

GameTerm(parts, pid, ri) == GameTermFrom(parts, pid, ri, 1, [grad |-> 0, hess |-> 0])

\* One side of the Wiener prior: v = W2_PER_DAY * days; grad -= (ri - rn) / v;
\* hess -= 1 / v.
PriorTerm(ri, rn, ticks) ==
  LET perV == 10 * TicksPerDay * (Million \div RScale)
      den == W2_PER_DAY_TENTHS * ticks
  IN  [grad |-> -MathRound((ri - rn) * perV, den), hess |-> -MathRound(perV * RScale, den)]

NoTerm == [grad |-> 0, hess |-> 0]

\* grad and hess for the latent value r[pid][li].
Derivatives(sorted, r, pid, li) ==
  LET gis == pGames(sorted, pid)
      days == pDays(sorted, pid)
      ri == r[pid][li]
      game == GameTerm(Parts(sorted, r, gis[li]), pid, ri)
      left == IF li > 1 THEN PriorTerm(ri, r[pid][li - 1], days[li - 1]) ELSE NoTerm
      right == IF li < Len(gis) THEN PriorTerm(ri, r[pid][li + 1], days[li]) ELSE NoTerm
  IN  [grad |-> game.grad + left.grad + right.grad,
       hess |-> game.hess + left.hess + right.hess]

\* The variant steps whenever the Hessian is negative, however small.
NewtonUpdateUnguarded(ri, d) ==
  IF d.hess < 0 THEN ri + NearestScaledDiv(d.grad, -d.hess, 3) ELSE ri

\* if (hess < -1e-6) r[pid][li] -= grad / hess
NewtonUpdate(ri, d) ==
  IF -d.hess > Million \div HessianThresholdInverse
  THEN ri + NearestScaledDiv(d.grad, -d.hess, 3)
  ELSE ri

NewtonStep(sorted, r, pid, li) ==
  [r EXCEPT ![pid][li] = NewtonUpdate(@, Derivatives(sorted, r, pid, li))]

\* for (const pid of allPids) for (li = 0; li < gis.length; li++): the latent
\* values in the order one sweep visits them.
RECURSIVE SweepOrderFrom(_, _, _)
SweepOrderFrom(sorted, pids, i) ==
  IF i > Len(pids) THEN <<>>
  ELSE [li \in 1..Len(pGames(sorted, pids[i])) |-> <<pids[i], li>>]
         \o SweepOrderFrom(sorted, pids, i + 1)

\* The variant visits only the first latent value of each player.
SweepOrderFirstOnly(sorted) ==
  [i \in DOMAIN allPids(sorted) |-> <<allPids(sorted)[i], 1>>]

SweepOrder(sorted) == SweepOrderFrom(sorted, allPids(sorted), 1)

RECURSIVE Sweep(_, _, _)
Sweep(sorted, r, order) ==
  IF order = <<>> THEN r
  ELSE LET stepped == NewtonStep(sorted, r, Head(order)[1], Head(order)[2])
       IN  IF stepped = r THEN Sweep(sorted, r, Tail(order))
           ELSE Sweep(sorted, stepped, Tail(order))

\* for (let iter = 0; iter < ITERATIONS; iter++): n sweeps, taken as one sweep,
\* then half of those left, then the rest.  A sweep that changes nothing is a
\* fixed point, and the sweeps left change nothing either.
RECURSIVE Iterate(_, _, _)
Iterate(sorted, r, n) ==
  IF n = 0 THEN r
  ELSE LET swept == Sweep(sorted, r, SweepOrder(sorted))
           half == Iterate(sorted, swept, (n - 1) \div 2)
       IN  IF swept = r THEN r
           ELSE Iterate(sorted, half, (n - 1) - ((n - 1) \div 2))

\* playerRatings[pid]: the last entry of the player's timeline.
FinalRatingOfFirstGame(r, pid) == logToElo(r[pid][1])

FinalRating(r, pid) == logToElo(r[pid][Len(r[pid])])

\* prev: the rating the change of game gi is measured from.
PreviousSnapshotAlwaysDefault(sorted, r, gi, pid) == DefaultRating

PreviousSnapshot(sorted, r, gi, pid) ==
  LET li == IndexOf(pGames(sorted, pid), gi)
  IN  IF li > 1 THEN logToElo(r[pid][li - 1]) ELSE DefaultRating

\* playerRatings, gameSnapshots and gameChanges from the final latent values.
Extract(sorted, r) ==
  LET Snapshot(gi, pid) == logToElo(r[pid][IndexOf(pGames(sorted, pid), gi)])
      Previous(gi, pid) == PreviousSnapshot(sorted, r, gi, pid)
      GameOf(id) == CHOOSE gi \in DOMAIN sorted :
                      sorted[gi].gameId = id /\ \A gj \in DOMAIN sorted : sorted[gj].gameId = id => gj <= gi
      Pids(gi) == {sorted[gi].players[i].playerId : i \in DOMAIN sorted[gi].players}
  IN  [playerRatings |-> [pid \in DOMAIN r |-> FinalRating(r, pid)],
       gameSnapshots |->
         [id \in {sorted[gi].gameId : gi \in DOMAIN sorted} |->
            [pid \in Pids(GameOf(id)) |-> Snapshot(GameOf(id), pid)]],
       gameChanges |->
         [id \in {sorted[gi].gameId : gi \in DOMAIN sorted} |->
            [pid \in Pids(GameOf(id)) |-> Snapshot(GameOf(id), pid) - Previous(GameOf(id), pid)]]]

computeWHR(games) ==
  LET sorted == SortedGames(games)
  IN  Extract(sorted, Iterate(sorted, InitialR(sorted), ITERATIONS))

(***************************************************************************)
(* lib/openskill_wrapper.ts: osOrdinal, calculateOSChanges.                *)
(*                                                                         *)
(* mu and sigma are integer numbers of 1/OsUnit.  The openskill package    *)
(* itself is outside the repository: rate() is whatever ratings it         *)
(* returns, ordinal() is mu - 3 sigma.                                     *)
(***************************************************************************)
SCALE == 40
OFFSET == 1000
OsUnit == 10 * 10 * 10
OsDefaultMu == 25 * OsUnit

ordinal(r) == r.mu - 3 * r.sigma

\* Math.round(ordinal(r) * SCALE + OFFSET)
osOrdinal(r) == MathRound(ordinal(r) * SCALE + OFFSET * OsUnit, OsUnit)

\* rating(): mu = 25, sigma = 25 / 3.
newOSRating == [mu |-> OsDefaultMu, sigma |-> OsDefaultMu \div 3]

\* [...players].sort((a, b) => a.position - b.position), stable.
RECURSIVE InsertByPositionField(_, _)
InsertByPositionField(x, sorted) ==
  IF sorted = <<>> THEN <<x>>
  ELSE IF PosLess(x.position, Head(sorted).position) THEN <<x>> \o sorted
       ELSE <<Head(sorted)>> \o InsertByPositionField(x, Tail(sorted))

RECURSIVE SortByPositionField(_)
SortByPositionField(s) ==
  IF s = <<>> THEN <<>>
  ELSE InsertByPositionField(s[Len(s)], SortByPositionField(SubSeq(s, 1, Len(s) - 1)))

\* The variant ranks by index: tied players get consecutive ranks.
OsRanksByIndex(sorted) == [i \in DOMAIN sorted |-> i]

\* ranks[i] = the first index holding sorted[i].position, counted from 1.
OsRanks(sorted) ==
  [i \in DOMAIN sorted |->
     CHOOSE k \in DOMAIN sorted :
       /\ PosEq(sorted[k].position, sorted[i].position)
       /\ \A j \in 1..(k - 1) : ~PosEq(sorted[j].position, sorted[i].position)]

\* results[player.id] for the ratings `updated` that rate() returned, one per
\* entry of the sorted list.
calculateOSChanges(players, updated) ==
  LET sorted == SortByPositionField(players)
      At(id) == CHOOSE i \in DOMAIN sorted :
                  sorted[i].id = id /\ \A j \in DOMAIN sorted : sorted[j].id = id => j <= i
  IN  [id \in IdsOf(players) |->
         LET player == sorted[At(id)]
             newRating == updated[At(id)]
             oldOrd == osOrdinal([mu |-> player.mu, sigma |-> player.sigma])
             newOrd == osOrdinal(newRating)
         IN  [mu |-> newRating.mu, sigma |-> newRating.sigma,
              ordinal |-> newOrd, change |-> newOrd - oldOrd]]

(***************************************************************************)
(* app/actions.ts: createPlayer, submitGame, recomputeWHR.                 *)
(***************************************************************************)
\* SQL NULL in an integer column.
Null == 0 - Million

\* The row createPlayer inserts.
createPlayer ==
  [initial_elo |-> DefaultRating, cf_rating |-> DefaultRating,
   os_mu |-> newOSRating.mu, os_sigma |-> newOSRating.sigma,
   os_ordinal |-> osOrdinal(newOSRating), whr_rating |-> DefaultRating]

\* add-game/page.tsx: the form lists the chosen players in elimination order,
\* position = index + 1.
FormOf(ids) == [i \in DOMAIN ids |-> [playerId |-> ids[i], position |-> i]]

PlayerIdsOf(normalizedList) == {normalizedList[i].playerId : i \in DOMAIN normalizedList}

\* supabase.from('players').select(...).in('id', playerIds): the rows that
\* exist, and those only.  The variant answers for every id asked.
FetchPlayersWithDefaults(table, playerIds) ==
  [id \in playerIds |-> IF id \in DOMAIN table THEN table[id] ELSE createPlayer]
FetchPlayers(table, playerIds) ==
  [id \in playerIds \cap DOMAIN table |-> table[id]]

\* gamesPlayedMap[pid] = count of the game_results rows of pid.
GamesPlayedMap(results, playerIds) ==
  [id \in playerIds |->
     Cardinality({i \in DOMAIN results : results[i].player_id = id})]

\* players.find(p => p.id === n.playerId)! is undefined for a player that
\* was not fetched, and reading player.id then throws.
AllFound(fetched, normalizedList) ==
  \A i \in DOMAIN normalizedList : normalizedList[i].playerId \in DOMAIN fetched

eloInput(normalizedList, fetched, gamesPlayedMap) ==
  [i \in DOMAIN normalizedList |->
     LET n == normalizedList[i]
     IN  [id |-> n.playerId, elo |-> fetched[n.playerId].initial_elo,
          gamesPlayed |-> gamesPlayedMap[n.playerId], position |-> n.normalizedPosition]]

cfInput(normalizedList, fetched, gamesPlayedMap) ==
  [i \in DOMAIN normalizedList |->
     LET n == normalizedList[i]
     IN  [id |-> n.playerId, rating |-> fetched[n.playerId].cf_rating,
          gamesPlayed |-> gamesPlayedMap[n.playerId], position |-> n.normalizedPosition]]

osInput(normalizedList, fetched) ==
  [i \in DOMAIN normalizedList |->
     LET n == normalizedList[i]
     IN  [id |-> n.playerId, mu |-> fetched[n.playerId].os_mu,
          sigma |-> fetched[n.playerId].os_sigma, position |-> n.normalizedPosition]]

\* The object pushed on resultsToInsert for one normalized entry.  The
\* variant stores the change in place of the new rating.
ResultRowAfterIsChange(gameId, n, player, eloChange, cfChange, os) ==
  [game_id |-> gameId, player_id |-> n.playerId,
   normalized_position |-> n.normalizedPosition,
   elo_before |-> player.initial_elo, elo_after |-> eloChange,
   elo_change |-> eloChange,
   cf_before |-> player.cf_rating, cf_after |-> cfChange,
   cf_change |-> cfChange,
   os_before |-> osOrdinal([mu |-> player.os_mu, sigma |-> player.os_sigma]),
   os_after |-> os.ordinal, os_change |-> os.change,
   whr_before |-> Null, whr_after |-> Null, whr_change |-> Null]
ResultRow(gameId, n, player, eloChange, cfChange, os) ==
  [game_id |-> gameId, player_id |-> n.playerId,
   normalized_position |-> n.normalizedPosition,
   elo_before |-> player.initial_elo, elo_after |-> player.initial_elo + eloChange,
   elo_change |-> eloChange,
   cf_before |-> player.cf_rating, cf_after |-> player.cf_rating + cfChange,
   cf_change |-> cfChange,
   os_before |-> osOrdinal([mu |-> player.os_mu, sigma |-> player.os_sigma]),
   os_after |-> os.ordinal, os_change |-> os.change,
   whr_before |-> Null, whr_after |-> Null, whr_change |-> Null]

\* supabase.from('players').update({...}).eq('id', playerId): no row, no change.
UpdatePlayerRow(table, playerId, player, eloChange, cfChange, os) ==
  IF playerId \notin DOMAIN table THEN table
  ELSE [table EXCEPT ![playerId] =
          [@ EXCEPT !.initial_elo = player.initial_elo + eloChange,
                    !.cf_rating = player.cf_rating + cfChange,
                    !.os_mu = os.mu, !.os_sigma = os.sigma, !.os_ordinal = os.ordinal]]

\* recomputeWHR: .order('played_at', { ascending: true })
OrderByPlayedAt(gamesTable) ==
  SortByPlayedAt([i \in DOMAIN gamesTable |->
                    [id |-> i, playedAt |-> gamesTable[i].played_at]])

\* allResults.filter(r => r.game_id === g.id), as row ids.
RECURSIVE RowsOfGame(_, _, _)
RowsOfGame(allResults, gameId, i) ==
  IF i > Len(allResults) THEN <<>>
  ELSE (IF allResults[i].game_id = gameId THEN <<i>> ELSE <<>>)
         \o RowsOfGame(allResults, gameId, i + 1)

\* whrGames: one WHRGame per game row, its players from the result rows.
\* normalized_position is a decimal column read back with parseFloat; the
\* averages of at most MaxLen indices keep their order through it.
BuildWhrGames(allGames, allResults) ==
  [g \in DOMAIN allGames |->
     LET rows == RowsOfGame(allResults, allGames[g].id, 1)
     IN  [gameId |-> allGames[g].id, playedAt |-> allGames[g].playedAt,
          players |-> [k \in DOMAIN rows |->
                         [playerId |-> allResults[rows[k]].player_id,
                          position |-> allResults[rows[k]].normalized_position]]]]

\* The rows the update loop visits, in its order.
RECURSIVE RowsToUpdate(_, _, _)
RowsToUpdate(allGames, allResults, g) ==
  IF g > Len(allGames) THEN <<>>
  ELSE RowsOfGame(allResults, allGames[g].id, 1) \o RowsToUpdate(allGames, allResults, g + 1)

\* The update of one result row.  Every row of a game has its snapshot: the
\* WHR input was built from the same rows.
WhrRowUpdate(row, whrResult) ==
  LET whrAfter == whrResult.gameSnapshots[row.game_id][row.player_id]
      whrChange == whrResult.gameChanges[row.game_id][row.player_id]
  IN  [row EXCEPT !.whr_before = whrAfter - whrChange,
                  !.whr_after = whrAfter,
                  !.whr_change = whrChange]

(***************************************************************************)
(* State.  Each specification below drives one part of the program and     *)
(* leaves the variables of the other parts at rest.                        *)
(***************************************************************************)
VARIABLES
  rawRankings,    \* normalizeRankings: the argument
  normalized,     \* normalizeRankings: the value returned
  normPhase,      \* "input" before the call, "returned" after it
  eloPlayers,     \* calculateEloChanges: the argument
  eloUnrounded,   \* eloChanges after the pairwise loop, in 1/DeltaScale
  eloChanges,     \* the value returned
  eloPhase,       \* "input", "summed", "rounded"
  whrGames,       \* computeWHR: the argument
  whrR,           \* r: the latent values, per player and per game played
  whrIter,        \* iter: the sweeps done
  whrResult,      \* the value returned
  whrPhase,       \* "input", "sweeping", "returned"
  players,        \* table players: id -> row
  games,          \* table games: the rows in insertion order, id = index
  gameResults,    \* table game_results: the rows in insertion order, id = index
  now,            \* the server clock, in ticks
  call,           \* the submitGame call: where it stands and its locals
  waiting,        \* the other submitGame calls in progress, suspended at an await
  submissions,    \* submitGame calls made so far
  faults,         \* database calls that have returned an error so far
  scriptGames,    \* the games the live path and the two scripts go through
  scriptIndex,    \* the games all three have dealt with
  scriptPhase,    \* whose turn it is: "live", "recalculate", "seed"
  liveResults,    \* game_results as the live submissions leave it
  gamesPlayedCount, \* recalculate: gamesPlayedCount
  gamesPlayedUsed, \* the gamesPlayed each path gave calculateEloChanges for the game
  kGamesPlayed,   \* getKFactor: the argument
  kFactor,        \* the value lib/elo.ts returns, in 1/KScale
  kFactorOnPage,  \* the value the helper of the game page returns, in 1/KScale
  kPhase,         \* "input", "computed", "displayed"
  cfPlayers,      \* calculateCFChanges: the argument
  cfDeltas,       \* delta of each player before rounding, a fraction
  cfChanges,      \* the value returned
  cfPhase,        \* "input", "computed", "rounded"
  seedPlayers,    \* seed(): table players, name -> initial_elo (Null: no such row)
  seedPhase,      \* seed(): "players", "clear", "games", "done"
  seedIndex,      \* seed(): the names, then the entries of gamesData, dealt with
  seedResults,    \* seed(): table game_results, the rows in insertion order
  whrCursor,      \* computeWHR: the latent values the sweep in progress has visited
  whrVisit,       \* computeWHR: the last visit, its grad and hess and r before it
  whrSeen,        \* computeWHR: the latent values visited, in order, by the last sweep begun
  termParts,      \* the game term in doubles: parts, each with the magnitude of its gamma
  termPid,        \* pid: the player the term is computed for
  termK,          \* k: the rounds done
  termPoolSum,    \* poolSum
  termDivisor,    \* poolSum as it was when frac was last computed
  termFrac,       \* frac of the last round: which kind of double it is
  termGrad,       \* grad: which kind of double it is
  termHess,       \* hess: which kind of double it is
  termPhase,      \* "input", "loop", "done"
  osPlayers,      \* calculateOSChanges: the argument
  osRanks,        \* ranks: the rank array handed to rate()
  osUpdated,      \* updated: what rate() returned
  osResults,      \* the value returned
  osPhase         \* "input", "rated", "returned"

normVars == <<rawRankings, normalized, normPhase>>
eloVars == <<eloPlayers, eloUnrounded, eloChanges, eloPhase>>
whrVars == <<whrGames, whrR, whrIter, whrResult, whrPhase>>
dbVars == <<players, games, gameResults, now, call, waiting, submissions, faults>>
scriptVars ==
  <<scriptGames, scriptIndex, scriptPhase, liveResults, gamesPlayedCount, gamesPlayedUsed>>
kVars == <<kGamesPlayed, kFactor, kFactorOnPage, kPhase>>
cfVars == <<cfPlayers, cfDeltas, cfChanges, cfPhase>>
seedVars == <<seedPlayers, seedPhase, seedIndex, seedResults>>
newtonVars == <<whrCursor, whrVisit, whrSeen>>
termVars ==
  <<termParts, termPid, termK, termPoolSum, termDivisor, termFrac, termGrad, termHess,
    termPhase>>
osVars == <<osPlayers, osRanks, osUpdated, osResults, osPhase>>
lateVars == <<seedVars, newtonVars, termVars, osVars>>
laterVars == <<scriptVars, kVars, cfVars, lateVars>>
unitVars == <<normVars, eloVars, whrVars, dbVars>>
vars == <<unitVars, laterVars>>

NormAtRest == rawRankings = <<>> /\ normalized = <<>> /\ normPhase = "off"
EloAtRest ==
  eloPlayers = <<>> /\ eloUnrounded = <<>> /\ eloChanges = <<>> /\ eloPhase = "off"
WhrAtRest ==
  whrGames = <<>> /\ whrR = <<>> /\ whrIter = 0 /\ whrResult = <<>> /\ whrPhase = "off"

\* The locals of a submitGame call that has not started.
NoCall ==
  [pc |-> "off", formData |-> <<>>, normalized |-> <<>>, fetched |-> <<>>,
   gamesPlayedMap |-> <<>>, eloChanges |-> <<>>, cfChanges |-> <<>>, osChanges |-> <<>>,
   gameId |-> 0, resultsToInsert |-> <<>>, idx |-> 0,
   allGames |-> <<>>, allResults |-> <<>>, whrResult |-> <<>>, queue |-> <<>>,
   error |-> ""]

DbAtRest ==
  /\ players = <<>> /\ games = <<>> /\ gameResults = <<>> /\ now = 0
  /\ call = NoCall /\ waiting = <<>> /\ submissions = 0 /\ faults = 0

ScriptsAtRest ==
  /\ scriptGames = <<>> /\ scriptIndex = 0 /\ scriptPhase = "off"
  /\ liveResults = <<>> /\ gamesPlayedCount = <<>> /\ gamesPlayedUsed = <<>>

KAtRest == kGamesPlayed = 0 /\ kFactor = 0 /\ kFactorOnPage = 0 /\ kPhase = "off"

CfAtRest == cfPlayers = <<>> /\ cfDeltas = <<>> /\ cfChanges = <<>> /\ cfPhase = "off"

SeedAtRest ==
  seedPlayers = <<>> /\ seedPhase = "off" /\ seedIndex = 0 /\ seedResults = <<>>

\* No latent value visited yet.
NoVisit ==
  [pid |-> 0, li |-> 0, before |-> <<>>, game |-> NoTerm, grad |-> 0, hess |-> 0]

NewtonAtRest == whrCursor = 0 /\ whrVisit = NoVisit /\ whrSeen = <<>>

TermAtRest ==
  /\ termParts = <<>> /\ termPid = 0 /\ termK = 0 /\ termPoolSum = 0 /\ termDivisor = 0
  /\ termFrac = "" /\ termGrad = "" /\ termHess = "" /\ termPhase = "off"

OsAtRest ==
  /\ osPlayers = <<>> /\ osRanks = <<>> /\ osUpdated = <<>> /\ osResults = <<>>
  /\ osPhase = "off"

LateAtRest == SeedAtRest /\ NewtonAtRest /\ TermAtRest /\ OsAtRest

LaterAtRest == ScriptsAtRest /\ KAtRest /\ CfAtRest /\ LateAtRest

(***************************************************************************)
(* SpecNorm: normalizeRankings applied to every list within the bounds.    *)
(***************************************************************************)
\* The lists a caller can pass: any player ids, any integer positions (the
\* function itself checks nothing, so 0 stands for a non-positive index).
RawEntries == [playerId : PlayerIds, position : 0..MaxPos]

NormInit ==
  /\ \E n \in 0..MaxLen : rawRankings \in [1..n -> RawEntries]
  /\ normalized = <<>>
  /\ normPhase = "input"
  /\ EloAtRest
  /\ WhrAtRest
  /\ DbAtRest
  /\ LaterAtRest

Normalize ==
  /\ normPhase = "input"
  /\ normalized' = normalizeRankings(rawRankings)
  /\ normPhase' = "returned"
  /\ UNCHANGED <<rawRankings, eloVars, whrVars, dbVars, laterVars>>

NormNext == Normalize

SpecNorm == NormInit /\ [][NormNext]_vars

(***************************************************************************)
(* SpecElo: calculateEloChanges applied to every field within the bounds.  *)
(***************************************************************************)
\* Ratings 400 apart, so that every expected score is exact.
EloGrid == {DefaultRating, DefaultRating + EloDivisor}
\* A newcomer and a player with K_DECAY_RATE games behind them.
GamesPlayedChoices == {0, K_DECAY_RATE}

EloEntries ==
  [elo : EloGrid, gamesPlayed : GamesPlayedChoices, position : {PosOfInt(n) : n \in 1..MaxField}]

\* The i-th entry of a field gets the id i.
WithIds(f) ==
  [i \in DOMAIN f |-> [id |-> i, elo |-> f[i].elo, gamesPlayed |-> f[i].gamesPlayed,
                       position |-> f[i].position]]

EloInit ==
  /\ \E n \in 2..MaxField : \E f \in [1..n -> EloEntries] : eloPlayers = WithIds(f)
  /\ eloUnrounded = <<>>
  /\ eloChanges = <<>>
  /\ eloPhase = "input"
  /\ NormAtRest
  /\ WhrAtRest
  /\ DbAtRest
  /\ LaterAtRest

\* The pairwise loop.
EloSum ==
  /\ eloPhase = "input"
  /\ eloUnrounded' = UnroundedEloChanges(eloPlayers)
  /\ eloPhase' = "summed"
  /\ UNCHANGED <<eloPlayers, eloChanges, normVars, whrVars, dbVars, laterVars>>

\* The rounding loop and the return.
EloRound ==
  /\ eloPhase = "summed"
  /\ eloChanges' = RoundChanges(eloUnrounded)
  /\ eloPhase' = "rounded"
  /\ UNCHANGED <<eloPlayers, eloUnrounded, normVars, whrVars, dbVars, laterVars>>

EloNext == EloSum \/ EloRound

SpecElo == EloInit /\ [][EloNext]_vars

(***************************************************************************)
(* SpecEloExample: calculateEloChanges on the worked example of            *)
(* ALGORITHM.md: four players rated 1200, 1100, 1000 and 900 with the same *)
(* number of games behind them, in every finishing order.                  *)
(***************************************************************************)
ExampleRatings == <<1200, 1100, 1000, 900>>

\* The finishing orders: every player a different place.
ExampleOrders ==
  {o \in [DOMAIN ExampleRatings -> DOMAIN ExampleRatings] :
     \A i, j \in DOMAIN ExampleRatings : i # j => o[i] # o[j]}

ExampleField(order, played) ==
  [i \in DOMAIN ExampleRatings |->
     [id |-> i, elo |-> ExampleRatings[i], gamesPlayed |-> played,
      position |-> PosOfInt(order[i])]]

EloExampleInit ==
  /\ \E o \in ExampleOrders : \E played \in 0..MaxGamesPlayed :
       eloPlayers = ExampleField(o, played)
  /\ eloUnrounded = <<>>
  /\ eloChanges = <<>>
  /\ eloPhase = "input"
  /\ NormAtRest
  /\ WhrAtRest
  /\ DbAtRest
  /\ LaterAtRest

SpecEloExample == EloExampleInit /\ [][EloNext]_vars

(***************************************************************************)
(* SpecCF: calculateCFChanges applied to every field within the bounds.    *)
(***************************************************************************)
\* Whole places and the place two tied finishers share.
CfPositions == {PosOfInt(n) : n \in 1..MaxField} \cup {[num |-> 3, den |-> 2]}

CfEntries == [rating : EloGrid, gamesPlayed : GamesPlayedChoices, position : CfPositions]

CfInit ==
  /\ \E n \in 2..MaxField : \E f \in [1..n -> CfEntries] :
       cfPlayers = [i \in 1..n |->
                      [id |-> i, rating |-> f[i].rating, gamesPlayed |-> f[i].gamesPlayed,
                       position |-> f[i].position]]
  /\ cfDeltas = <<>>
  /\ cfChanges = <<>>
  /\ cfPhase = "input"
  /\ NormAtRest
  /\ EloAtRest
  /\ WhrAtRest
  /\ DbAtRest
  /\ ScriptsAtRest
  /\ KAtRest
  /\ LateAtRest

\* The loop over the players: each delta, and its rounding into changes.
CfCompute ==
  /\ cfPhase = "input"
  /\ cfDeltas' = [i \in DOMAIN cfPlayers |-> Delta(cfPlayers[i], cfPlayers)]
  /\ cfChanges' = calculateCFChanges(cfPlayers)
  /\ cfPhase' = "returned"
  /\ UNCHANGED <<cfPlayers, unitVars, lateVars, scriptVars, kVars>>

CfNext == CfCompute

SpecCF == CfInit /\ [][CfNext]_vars

(***************************************************************************)
(* SpecWHR: computeWHR applied to every history within the bounds, one     *)
(* sweep of the Newton loop per step.                                      *)
(***************************************************************************)
\* The players of one game: at least two, each listed once, in any order.
WhrListings ==
  UNION {{f \in [1..n -> PlayerIds] : \A i, j \in 1..n : f[i] = f[j] => i = j} :
           n \in 2..NumPlayers}
WhrPositions == {PosOfInt(n) : n \in 1..NumPlayers}
\* Two games may share a timestamp, be less than half a day apart, or a day apart.
WhrTimes == {0, 1, TicksPerDay}

WhrGameOf(id, t, listing, pos) ==
  [gameId |-> id, playedAt |-> t,
   players |-> [i \in DOMAIN listing |-> [playerId |-> listing[i], position |-> pos[i]]]]

WhrInit ==
  /\ \E n \in 1..MaxGames :
       \E t \in [1..n -> WhrTimes] :
         \E l \in [1..n -> WhrListings] :
           \E pos \in [1..n -> [1..NumPlayers -> WhrPositions]] :
             whrGames = [g \in 1..n |-> WhrGameOf(g, t[g], l[g], pos[g])]
  /\ whrR = <<>>
  /\ whrIter = 0
  /\ whrResult = <<>>
  /\ whrPhase = "input"
  /\ NormAtRest
  /\ EloAtRest
  /\ DbAtRest
  /\ LaterAtRest

\* The sort, the timelines and r filled with zeros.
WhrStart ==
  /\ whrPhase = "input"
  /\ whrR' = InitialR(SortedGames(whrGames))
  /\ whrIter' = 0
  /\ whrPhase' = "sweeping"
  /\ UNCHANGED <<whrGames, whrResult, normVars, eloVars, dbVars, laterVars>>

\* One pass of the loop over iter.
WhrSweep ==
  /\ whrPhase = "sweeping"
  /\ whrIter < ITERATIONS
  /\ whrR' = Sweep(SortedGames(whrGames), whrR, SweepOrder(SortedGames(whrGames)))
  /\ whrIter' = whrIter + 1
  /\ UNCHANGED <<whrGames, whrResult, whrPhase, normVars, eloVars, dbVars, laterVars>>

\* The extraction and the return.
WhrExtract ==
  /\ whrPhase = "sweeping"
  /\ whrIter = ITERATIONS
  /\ whrResult' = Extract(SortedGames(whrGames), whrR)
  /\ whrPhase' = "returned"
  /\ UNCHANGED <<whrGames, whrR, whrIter, normVars, eloVars, dbVars, laterVars>>

WhrNext == WhrStart \/ WhrSweep \/ WhrExtract

SpecWHR == WhrInit /\ [][WhrNext]_vars

(***************************************************************************)
(* Spec: submitGame calls, one after the other, against the database.      *)
(* Each step is one awaited database call together with the synchronous    *)
(* code that follows it.  A database call may return an error, at most     *)
(* MaxFaults times in a run.                                               *)
(***************************************************************************)
\* An id that no row of players has.
UnknownId == 0
FormIds == PlayerIds \cup {UnknownId}

\* What rate() may return for a participant; within one call, the same for
\* every participant.
OsRatings ==
  {newOSRating,
   [mu |-> OsDefaultMu + OsUnit, sigma |-> (OsDefaultMu \div 3) - (OsUnit \div 2)]}

otherVars == <<normVars, eloVars, whrVars, waiting, laterVars>>

Init ==
  /\ players = [id \in PlayerIds |-> createPlayer]
  /\ games = <<>>
  /\ gameResults = <<>>
  /\ now = 0
  /\ call = [NoCall EXCEPT !.pc = "idle"]
  /\ waiting = <<>>
  /\ submissions = 0
  /\ faults = 0
  /\ NormAtRest
  /\ EloAtRest
  /\ WhrAtRest
  /\ LaterAtRest

Throw(message) == [call EXCEPT !.pc = "thrown", !.error = message]

\* submitGame(formData) up to its first await: normalizeRankings.
SubmitGame ==
  /\ call.pc \in {"idle", "returned", "thrown"}
  /\ submissions < MaxGames
  /\ \E n \in 2..MaxLen : \E ids \in [1..n -> FormIds] :
       call' = [NoCall EXCEPT !.pc = "fetchPlayers",
                              !.formData = FormOf(ids),
                              !.normalized = normalizeRankings(FormOf(ids))]
  /\ submissions' = submissions + 1
  /\ now' = now + TicksPerDay
  /\ UNCHANGED <<players, games, gameResults, faults, otherVars>>

\* 2. Fetch current ratings for all players.
FetchPlayersReturns ==
  /\ call.pc = "fetchPlayers"
  /\ call' = [call EXCEPT !.fetched = FetchPlayers(players, PlayerIdsOf(call.normalized)),
                          !.pc = "countGames"]
  /\ UNCHANGED <<players, games, gameResults, now, submissions, faults, otherVars>>

FetchPlayersFails ==
  /\ call.pc = "fetchPlayers"
  /\ faults < MaxFaults
  /\ call' = Throw("Failed to fetch players")
  /\ faults' = faults + 1
  /\ UNCHANGED <<players, games, gameResults, now, submissions, otherVars>>

\* 2b. Fetch games played count per player.
CountGames ==
  /\ call.pc = "countGames"
  /\ call' = [call EXCEPT
                !.gamesPlayedMap = GamesPlayedMap(gameResults, PlayerIdsOf(call.normalized)),
                !.pc = "compute"]
  /\ UNCHANGED <<players, games, gameResults, now, submissions, faults, otherVars>>

\* 3a. eloInput reads player.id of a player that was not fetched.
PlayerNotFound ==
  /\ call.pc = "compute"
  /\ ~AllFound(call.fetched, call.normalized)
  /\ call' = Throw("Cannot read properties of undefined")
  /\ UNCHANGED <<players, games, gameResults, now, submissions, faults, otherVars>>

\* 3a, 3b, 3c. The three engines.
ComputeChangesRated(ratings) ==
  /\ call.pc = "compute"
  /\ AllFound(call.fetched, call.normalized)
  /\ \E rated \in ratings :
       call' = [call EXCEPT
         !.eloChanges =
            calculateEloChanges(eloInput(call.normalized, call.fetched, call.gamesPlayedMap)),
         !.cfChanges =
            calculateCFChanges(cfInput(call.normalized, call.fetched, call.gamesPlayedMap)),
         !.osChanges = calculateOSChanges(osInput(call.normalized, call.fetched),
                                          [i \in DOMAIN call.normalized |-> rated]),
         !.pc = "insertGame"]
  /\ UNCHANGED <<players, games, gameResults, now, submissions, faults, otherVars>>

ComputeChanges == ComputeChangesRated(OsRatings)

\* 4. Create game record.
InsertGame ==
  /\ call.pc = "insertGame"
  /\ games' = Append(games, [total_players |-> Len(call.normalized), played_at |-> now])
  /\ call' = [call EXCEPT !.gameId = Len(games) + 1, !.idx = 1, !.pc = "updatePlayers"]
  /\ UNCHANGED <<players, gameResults, now, submissions, faults, otherVars>>

InsertGameFails ==
  /\ call.pc = "insertGame"
  /\ faults < MaxFaults
  /\ call' = Throw("Failed to create game")
  /\ faults' = faults + 1
  /\ UNCHANGED <<players, games, gameResults, now, submissions, otherVars>>

\* The call with the row of normalized[idx] pushed on resultsToInsert.
RowPushed ==
  LET n == call.normalized[call.idx]
      row == ResultRow(call.gameId, n, call.fetched[n.playerId],
                       call.eloChanges[n.playerId], call.cfChanges[n.playerId],
                       call.osChanges[n.playerId])
  IN  [call EXCEPT !.resultsToInsert = Append(@, row),
                   !.idx = @ + 1,
                   !.pc = IF call.idx = Len(call.normalized) THEN "insertResults" ELSE @]

\* 5. One turn of the loop: push the row, update the player.
UpdatePlayer ==
  /\ call.pc = "updatePlayers"
  /\ LET n == call.normalized[call.idx]
     IN  players' = UpdatePlayerRow(players, n.playerId, call.fetched[n.playerId],
                                    call.eloChanges[n.playerId], call.cfChanges[n.playerId],
                                    call.osChanges[n.playerId])
  /\ call' = RowPushed
  /\ UNCHANGED <<games, gameResults, now, submissions, faults, otherVars>>

\* if (updateError) console.error(...): the loop goes on.
UpdatePlayerFails ==
  /\ call.pc = "updatePlayers"
  /\ faults < MaxFaults
  /\ call' = RowPushed
  /\ faults' = faults + 1
  /\ UNCHANGED <<players, games, gameResults, now, submissions, otherVars>>

InsertResults ==
  /\ call.pc = "insertResults"
  /\ gameResults' = gameResults \o call.resultsToInsert
  /\ call' = [call EXCEPT !.pc = "readGames"]
  /\ UNCHANGED <<players, games, now, submissions, faults, otherVars>>

InsertResultsFails ==
  /\ call.pc = "insertResults"
  /\ faults < MaxFaults
  /\ call' = Throw("Failed to save results")
  /\ faults' = faults + 1
  /\ UNCHANGED <<players, games, gameResults, now, submissions, otherVars>>

\* recomputeWHR: fetch all games.
ReadGames ==
  /\ call.pc = "readGames"
  /\ call' = [call EXCEPT !.allGames = OrderByPlayedAt(games), !.pc = "readResults"]
  /\ UNCHANGED <<players, games, gameResults, now, submissions, faults, otherVars>>

\* if (!allGames || allGames.length === 0) return
ReadGamesFails ==
  /\ call.pc = "readGames"
  /\ faults < MaxFaults
  /\ call' = [call EXCEPT !.pc = "returned"]
  /\ faults' = faults + 1
  /\ UNCHANGED <<players, games, gameResults, now, submissions, otherVars>>

\* recomputeWHR: fetch all results, build the input, run computeWHR.
ReadResults ==
  /\ call.pc = "readResults"
  /\ LET whrInput == BuildWhrGames(call.allGames, gameResults)
     IN  call' = [call EXCEPT !.allResults = gameResults,
                              !.whrResult = computeWHR(whrInput),
                              !.queue = RowsToUpdate(call.allGames, gameResults, 1),
                              !.idx = 1,
                              !.pc = "updateRows"]
  /\ UNCHANGED <<players, games, gameResults, now, submissions, faults, otherVars>>

\* One update of game_results; after the last, Object.entries(playerRatings).
UpdateWhrRow ==
  /\ call.pc = "updateRows"
  /\ gameResults' = [gameResults EXCEPT ![call.queue[call.idx]] =
                       WhrRowUpdate(@, call.whrResult)]
  /\ call' = IF call.idx < Len(call.queue)
             THEN [call EXCEPT !.idx = @ + 1]
             ELSE [call EXCEPT !.idx = 1,
                               !.queue = allPids(BuildWhrGames(call.allGames, call.allResults)),
                               !.pc = "updateWhrPlayers"]
  /\ UNCHANGED <<players, games, now, submissions, faults, otherVars>>

\* One update of players.whr_rating; after the last, submitGame returns.
UpdateWhrPlayer ==
  /\ call.pc = "updateWhrPlayers"
  /\ LET pid == call.queue[call.idx]
     IN  players' = IF pid \in DOMAIN players
                    THEN [players EXCEPT ![pid].whr_rating = call.whrResult.playerRatings[pid]]
                    ELSE players
  /\ call' = IF call.idx < Len(call.queue)
             THEN [call EXCEPT !.idx = @ + 1]
             ELSE [call EXCEPT !.pc = "returned"]
  /\ UNCHANGED <<games, gameResults, now, submissions, faults, otherVars>>

Next ==
  \/ SubmitGame
  \/ FetchPlayersReturns
  \/ FetchPlayersFails
  \/ CountGames
  \/ PlayerNotFound
  \/ ComputeChanges
  \/ InsertGame
  \/ InsertGameFails
  \/ UpdatePlayer
  \/ UpdatePlayerFails
  \/ InsertResults
  \/ InsertResultsFails
  \/ ReadGames
  \/ ReadGamesFails
  \/ ReadResults
  \/ UpdateWhrRow
  \/ UpdateWhrPlayer

Spec == Init /\ [][Next]_vars

(***************************************************************************)
(* SpecConcurrent: submitGame calls in progress at the same time.  A       *)
(* server action runs up to an await and is resumed when the database      *)
(* answers; in between, another call runs.  call is the call that runs,    *)
(* waiting holds the suspended ones, and Resume exchanges the running call *)
(* with a suspended one between two awaited steps.  The database calls     *)
(* succeed here and the forms list registered players.                     *)
(***************************************************************************)
ConcurrentForms ==
  {ids \in [1..NumPlayers -> PlayerIds] : \A i, j \in 1..NumPlayers : i # j => ids[i] # ids[j]}

ConcurrentInit ==
  /\ players = [id \in PlayerIds |-> createPlayer]
  /\ games = <<>>
  /\ gameResults = <<>>
  /\ now = 0
  /\ call = [NoCall EXCEPT !.pc = "idle"]
  /\ waiting = [c \in 1..(MaxCalls - 1) |-> [NoCall EXCEPT !.pc = "idle"]]
  /\ submissions = 0
  /\ faults = 0
  /\ NormAtRest
  /\ EloAtRest
  /\ WhrAtRest
  /\ LaterAtRest

\* A browser posts a form while other calls may be in progress.
SubmitGameConcurrently ==
  /\ call.pc = "idle"
  /\ \E ids \in ConcurrentForms :
       call' = [NoCall EXCEPT !.pc = "fetchPlayers",
                              !.formData = FormOf(ids),
                              !.normalized = normalizeRankings(FormOf(ids))]
  /\ submissions' = submissions + 1
  /\ now' = now + TicksPerDay
  /\ UNCHANGED <<players, games, gameResults, faults, otherVars>>

\* The three engines, with one outcome of rate().
ComputeChangesConcurrently == ComputeChangesRated({newOSRating})

\* The running call is suspended at its await and another call goes on.
Resume ==
  /\ \E c \in DOMAIN waiting :
       /\ call' = waiting[c]
       /\ waiting' = [waiting EXCEPT ![c] = call]
  /\ UNCHANGED <<players, games, gameResults, now, submissions, faults,
                 normVars, eloVars, whrVars, laterVars>>

ConcurrentNext ==
  \/ SubmitGameConcurrently
  \/ Resume
  \/ FetchPlayersReturns
  \/ CountGames
  \/ ComputeChangesConcurrently
  \/ InsertGame
  \/ UpdatePlayer
  \/ InsertResults
  \/ ReadGames
  \/ ReadResults
  \/ UpdateWhrRow
  \/ UpdateWhrPlayer

SpecConcurrent == ConcurrentInit /\ [][ConcurrentNext]_vars

(***************************************************************************)
(* computeWHR on its own and as recomputeWHR calls it: the histories of    *)
(* SpecWHR in every array order, and the submissions of Spec.              *)
(***************************************************************************)
WhrOrDbInit == WhrInit \/ Init

WhrOrDbNext == WhrNext \/ Next

SpecWhrPersisted == WhrOrDbInit /\ [][WhrOrDbNext]_vars

(***************************************************************************)
(* SpecScripts: the gamesPlayed that reaches calculateEloChanges on the    *)
(* three paths that rate a game: submitGame (part_001), the replay of      *)
(* recalculate() and the seeding script seed() (both in                    *)
(* scripts/recalculate.sql).  The same games go through the three paths,   *)
(* one game and one path per step.                                         *)
(***************************************************************************)
\* seed(): gamesPlayed: 10
SeedGamesPlayed == 10

\* recalculate(): gamesPlayedCount[p.id] = 0 for every player.
InitialGamesPlayedCount == [p \in PlayerIds |-> 0]

\* recalculate(): gamesPlayed: gamesPlayedCount[r.player_id] ?? 0
RecalculateGamesPlayed(count, ids) ==
  [id \in ids |-> IF id \in DOMAIN count THEN count[id] ELSE 0]

\* recalculate(): gamesPlayedCount[r.player_id] = (... ?? 0) + 1 for every result.
IncrementGamesPlayed(count, ids) ==
  [id \in DOMAIN count |-> IF id \in ids THEN count[id] + 1 ELSE count[id]]

\* seed(): every entry of eloCalcInput gets the same gamesPlayed.
SeededGamesPlayed(ids) == [id \in ids |-> SeedGamesPlayed]

\* The participants of the game in turn: one result row per normalized record.
ScriptParticipants == PlayerIdsOf(normalizeRankings(scriptGames[scriptIndex + 1]))

ScriptsInit ==
  /\ \E n \in 1..MaxGames :
       scriptGames \in [1..n -> {FormOf(ids) : ids \in UNION {[1..k -> PlayerIds] : k \in 2..MaxLen}}]
  /\ scriptIndex = 0
  /\ scriptPhase = "live"
  /\ liveResults = <<>>
  /\ gamesPlayedCount = InitialGamesPlayedCount
  /\ gamesPlayedUsed = <<>>
  /\ NormAtRest
  /\ EloAtRest
  /\ WhrAtRest
  /\ DbAtRest
  /\ KAtRest
  /\ CfAtRest
  /\ LateAtRest

\* submitGame: the count of the player's result rows, then the rows of the game.
LiveSubmission ==
  /\ scriptPhase = "live"
  /\ scriptIndex < Len(scriptGames)
  /\ gamesPlayedUsed' = [live |-> GamesPlayedMap(liveResults, ScriptParticipants)]
  /\ liveResults' = liveResults \o
       [i \in DOMAIN normalizeRankings(scriptGames[scriptIndex + 1]) |->
          [game_id |-> scriptIndex + 1,
           player_id |-> normalizeRankings(scriptGames[scriptIndex + 1])[i].playerId]]
  /\ scriptPhase' = "recalculate"
  /\ UNCHANGED <<scriptGames, scriptIndex, gamesPlayedCount, unitVars, lateVars, kVars, cfVars>>

\* recalculate(): one turn of the loop over the games.
RecalculateGame ==
  /\ scriptPhase = "recalculate"
  /\ gamesPlayedUsed' =
       [live |-> gamesPlayedUsed.live,
        recalculate |-> RecalculateGamesPlayed(gamesPlayedCount, ScriptParticipants)]
  /\ gamesPlayedCount' = IncrementGamesPlayed(gamesPlayedCount, ScriptParticipants)
  /\ scriptPhase' = "seed"
  /\ UNCHANGED <<scriptGames, scriptIndex, liveResults, unitVars, lateVars, kVars, cfVars>>

\* seed(): one turn of the loop over gamesData.
SeedGame ==
  /\ scriptPhase = "seed"
  /\ gamesPlayedUsed' =
       [live |-> gamesPlayedUsed.live,
        recalculate |-> gamesPlayedUsed.recalculate,
        seed |-> SeededGamesPlayed(ScriptParticipants)]
  /\ scriptIndex' = scriptIndex + 1
  /\ scriptPhase' = "live"
  /\ UNCHANGED <<scriptGames, liveResults, gamesPlayedCount, unitVars, lateVars, kVars, cfVars>>

ScriptsNext == LiveSubmission \/ RecalculateGame \/ SeedGame

SpecScripts == ScriptsInit /\ [][ScriptsNext]_vars

(***************************************************************************)
(* SpecK: getKFactor of lib/elo.ts and the helper of the game detail page, *)
(* for every number of games played up to MaxGamesPlayed.                  *)
(***************************************************************************)
KInit ==
  /\ kGamesPlayed \in 0..MaxGamesPlayed
  /\ kFactor = 0
  /\ kFactorOnPage = 0
  /\ kPhase = "input"
  /\ NormAtRest
  /\ EloAtRest
  /\ WhrAtRest
  /\ DbAtRest
  /\ ScriptsAtRest
  /\ CfAtRest
  /\ LateAtRest

\* calculateEloChanges and calculateCFChanges ask lib/elo.ts for the K-factor.
ComputeK ==
  /\ kPhase = "input"
  /\ kFactor' = getKFactor(kGamesPlayed)
  /\ kPhase' = "computed"
  /\ UNCHANGED <<kGamesPlayed, kFactorOnPage, unitVars, lateVars, scriptVars, cfVars>>

\* The game detail page computes the K-factor it shows with its own helper.
DisplayK ==
  /\ kPhase = "computed"
  /\ kFactorOnPage' = getKFactorOnPage(kGamesPlayed)
  /\ kPhase' = "displayed"
  /\ UNCHANGED <<kGamesPlayed, kFactor, unitVars, lateVars, scriptVars, cfVars>>

KNext == ComputeK \/ DisplayK

SpecK == KInit /\ [][KNext]_vars

(***************************************************************************)
(* SpecSeed: seed() of the seeding script (scripts/recalculate.sql, the     *)
(* third file in it), run over its own gamesData against a players table   *)
(* in any state: every name missing or present with some rating.  One step *)
(* per turn of each of its loops.                                          *)
(***************************************************************************)
\* new Date(date).getTime(), as minutes since the start of 2026 (the dates of
\* gamesData are in January and February).
DateOf(month, day, hour, minute) ==
  ((((IF month = 1 THEN 0 ELSE 31) + day - 1) * 24 + hour) * 60) + minute

\* const gamesData = [...], in array order.
gamesData ==
  <<[date |-> DateOf(1, 7, 12, 0),
     raw |-> <<"Chetan", "Rishi", "Rohit", "Saurav", "Kabeer", "Amay", "Akshay">>],
    [date |-> DateOf(2, 6, 13, 20),
     raw |-> <<"Rohit", "Kabeer", "Amay", "Saurav", "Chetan", "Akshay", "Rohit", "Akshay",
               "Rohit">>],
    [date |-> DateOf(2, 6, 13, 50),
     raw |-> <<"Rishi", "Akshay", "Chetan", "Saurav", "Amay", "Kabeer", "Rohit", "Kabeer",
               "Amay", "Kabeer", "Kabeer">>],
    [date |-> DateOf(2, 5, 22, 46),
     raw |-> <<"Shashank", "Amay", "Kabeer", "Rohit", "Rishi", "Chetan", "Rohit", "Kabeer",
               "Rohit">>],
    [date |-> DateOf(2, 5, 23, 30),
     raw |-> <<"Rohit", "Akshay", "Saurav", "Amay", "Farhan", "Rishi">>]>>

\* for (const gameData of gamesData): the games in the order the loop takes them.
SeedLoopOrder == gamesData

\* uniqueNames: every name of every raw list; a Set iterates in insertion order.
RECURSIVE AllRaw(_)
AllRaw(data) == IF data = <<>> THEN <<>> ELSE Head(data).raw \o AllRaw(Tail(data))

RECURSIVE DistinctNames(_, _)
DistinctNames(names, seen) ==
  IF names = <<>> THEN <<>>
  ELSE IF Head(names) \in seen THEN DistinctNames(Tail(names), seen)
       ELSE <<Head(names)>> \o DistinctNames(Tail(names), seen \cup {Head(names)})

uniqueNames == DistinctNames(AllRaw(gamesData), {})

\* rawInputs: { playerId: p.id, position: index + 1 }; a player's id is its name here.
rawInputs(gameData) ==
  [i \in DOMAIN gameData.raw |-> [playerId |-> gameData.raw[i], position |-> i]]

\* eloCalcInput: the rating fetched for the game, gamesPlayed: 10.
eloCalcInput(seedNormalized, currentPlayers) ==
  [i \in DOMAIN seedNormalized |->
     [id |-> seedNormalized[i].playerId,
      elo |-> currentPlayers[seedNormalized[i].playerId],
      gamesPlayed |-> SeedGamesPlayed,
      position |-> seedNormalized[i].normalizedPosition]]

\* resultsPayload: one row per normalized record.
resultsPayload(gameId, gameData, seedNormalized, currentPlayers, changes) ==
  [i \in DOMAIN seedNormalized |->
     LET id == seedNormalized[i].playerId
     IN  [game_id |-> gameId,
          played_at |-> gameData.date,
          player_id |-> id,
          normalized_position |-> seedNormalized[i].normalizedPosition,
          elo_before |-> currentPlayers[id],
          elo_after |-> currentPlayers[id] + changes[id],
          elo_change |-> changes[id]]]

\* The ratings a player may have before the script runs.
PriorRatings == {DefaultRating, DefaultRating + 100}

SeedInit ==
  /\ seedPlayers \in [RangeOf(uniqueNames) -> PriorRatings \cup {Null}]
  /\ seedPhase = "players"
  /\ seedIndex = 0
  /\ seedResults \in
       {<<>>, <<[game_id |-> 0, played_at |-> 0, player_id |-> uniqueNames[1],
                 normalized_position |-> PosOfInt(1), elo_before |-> DefaultRating,
                 elo_after |-> DefaultRating + 100, elo_change |-> 100]>>}
  /\ NormAtRest
  /\ EloAtRest
  /\ WhrAtRest
  /\ DbAtRest
  /\ ScriptsAtRest
  /\ KAtRest
  /\ CfAtRest
  /\ NewtonAtRest
  /\ TermAtRest
  /\ OsAtRest

\* 1. Get or Create Players: one name per turn; a new row gets initial_elo 1000,
\* an existing row is reset to 1000.
GetOrCreatePlayer ==
  /\ seedPhase = "players"
  /\ seedPlayers' = [seedPlayers EXCEPT ![uniqueNames[seedIndex + 1]] = DefaultRating]
  /\ IF seedIndex + 1 = Len(uniqueNames)
     THEN seedPhase' = "clear" /\ seedIndex' = 0
     ELSE seedPhase' = seedPhase /\ seedIndex' = seedIndex + 1
  /\ UNCHANGED <<seedResults, unitVars, scriptVars, kVars, cfVars, newtonVars, termVars, osVars>>

\* 2. Clear All Games.
ClearAllGames ==
  /\ seedPhase = "clear"
  /\ seedResults' = <<>>
  /\ seedPhase' = "games"
  /\ UNCHANGED <<seedPlayers, seedIndex, unitVars, scriptVars, kVars, cfVars, newtonVars, termVars, osVars>>

\* 3. Process Games: one turn of for (const gameData of gamesData).
ProcessGame ==
  /\ seedPhase = "games"
  /\ LET gameData == SeedLoopOrder[seedIndex + 1]
         seedNormalized == normalizeRankings(rawInputs(gameData))
         changes == calculateEloChanges(eloCalcInput(seedNormalized, seedPlayers))
     IN  /\ seedResults' = seedResults \o
              resultsPayload(seedIndex + 1, gameData, seedNormalized, seedPlayers, changes)
         /\ seedPlayers' =
              [name \in DOMAIN seedPlayers |->
                 IF name \in DOMAIN changes THEN seedPlayers[name] + changes[name]
                 ELSE seedPlayers[name]]
  /\ seedIndex' = seedIndex + 1
  /\ seedPhase' = IF seedIndex + 1 = Len(SeedLoopOrder) THEN "done" ELSE seedPhase
  /\ UNCHANGED <<unitVars, scriptVars, kVars, cfVars, newtonVars, termVars, osVars>>

SeedNext == GetOrCreatePlayer \/ ClearAllGames \/ ProcessGame

SpecSeed == SeedInit /\ [][SeedNext]_vars

(***************************************************************************)
(* SpecNewton: the Newton loop of computeWHR, one latent value per step.   *)
(* The history is a game of the whole field, in every assignment of        *)
(* positions, followed by rematches between the last and the first player  *)
(* of the field.                                                           *)
(***************************************************************************)
NewtonField == [i \in 1..MaxField |-> i]

\* The rematch: the last player of the field finishes ahead of the first.
Rematch == <<MaxField, 1>>

NewtonInit ==
  /\ \E n \in 1..MaxGames :
       \E pos \in [1..MaxField -> {PosOfInt(q) : q \in 1..MaxPos}] :
         \E gap \in {1, TicksPerDay} :
           whrGames =
             [g \in 1..n |->
                IF g = 1 THEN WhrGameOf(1, 0, NewtonField, pos)
                ELSE WhrGameOf(g, (g - 1) * gap, Rematch, <<PosOfInt(1), PosOfInt(2)>>)]
  /\ whrR = <<>>
  /\ whrIter = 0
  /\ whrResult = <<>>
  /\ whrPhase = "input"
  /\ NormAtRest
  /\ EloAtRest
  /\ DbAtRest
  /\ LaterAtRest

\* for (let li = 0; li < gis.length; li++) { ... }: the body for one latent
\* value, with the loop counters that follow it.
NewtonVisit ==
  /\ whrPhase = "sweeping"
  /\ whrIter < ITERATIONS
  /\ LET sorted == SortedGames(whrGames)
         order == SweepOrder(sorted)
         pid == order[whrCursor + 1][1]
         li == order[whrCursor + 1][2]
         d == Derivatives(sorted, whrR, pid, li)
     IN  /\ whrR' = NewtonStep(sorted, whrR, pid, li)
         /\ whrVisit' =
              [pid |-> pid, li |-> li, before |-> whrR,
               game |-> GameTerm(Parts(sorted, whrR, pGames(sorted, pid)[li]), pid,
                                 whrR[pid][li]),
               grad |-> d.grad, hess |-> d.hess]
         /\ whrSeen' = Append(IF whrCursor = 0 THEN <<>> ELSE whrSeen, <<pid, li>>)
         /\ IF whrCursor + 1 = Len(order)
            THEN whrCursor' = 0 /\ whrIter' = whrIter + 1
            ELSE whrCursor' = whrCursor + 1 /\ whrIter' = whrIter
  /\ UNCHANGED <<whrGames, whrResult, whrPhase, normVars, eloVars, dbVars,
                 scriptVars, kVars, cfVars, seedVars, termVars, osVars>>

NewtonNext == WhrStart \/ NewtonVisit \/ WhrExtract

SpecNewton == NewtonInit /\ [][NewtonNext]_vars

\* What a visit does to the loop counters: li++, and iter++ after the last
\* latent value of the last player.
VisitCounted ==
  /\ whrPhase = "sweeping"
  /\ whrIter < ITERATIONS
  /\ IF whrCursor + 1 = SumSeq([g \in DOMAIN whrGames |-> Len(whrGames[g].players)])
     THEN whrCursor' = 0 /\ whrIter' = whrIter + 1
     ELSE whrCursor' = whrCursor + 1 /\ whrIter' = whrIter

\* The loops have no await: once called, computeWHR runs on, through every
\* turn of its loops, to its return.
SpecNewtonFair ==
  /\ SpecNewton
  /\ WF_vars(WhrStart)
  /\ WF_<<whrCursor, whrIter>>(VisitCounted)
  /\ WF_vars(WhrExtract)

(***************************************************************************)
(* SpecTerm: the Plackett-Luce loop of computeWHR (let grad = 0 ... to the *)
(* end of the loop over k) in the doubles of the code, for strengths far   *)
(* enough apart for the rounding of a sum to show.                         *)
(*                                                                         *)
(* A strength gamma = Math.exp(r) is given by its level.  Level 0 is the   *)
(* strength 1 = Math.exp(0), the value every r starts from.  A strength of *)
(* a higher level is a finite double more than 2^54 * MaxField times any   *)
(* strength of a lower level (its r is more than 38.6 above), so that the  *)
(* double nearest to the sum or the difference of the two is the larger    *)
(* one, with its sign; no two participants share a level above 0.  A pool  *)
(* sum is then coef times the strength of its level, exactly: a number of  *)
(* ones at level 0, plus or minus the one strength of a higher level.      *)
(* frac, grad and hess are kept as the kind of double they are: "finite",  *)
(* "Infinity", "-Infinity" or "NaN".                                       *)
(***************************************************************************)
ZeroSum == [coef |-> 0, level |-> 0]

\* s + p.gamma, rounded to the nearest double.
FlAdd(sum, level) ==
  IF sum.coef = 0 \/ level > sum.level THEN [coef |-> 1, level |-> level]
  ELSE IF level < sum.level THEN sum
  ELSE [coef |-> sum.coef + 1, level |-> level]

\* poolSum - parts[k].gamma, rounded to the nearest double.
FlSub(sum, level) ==
  IF sum.coef = 0 \/ level > sum.level THEN [coef |-> -1, level |-> level]
  ELSE IF level < sum.level THEN sum
  ELSE IF sum.coef = 1 THEN ZeroSum
  ELSE [coef |-> sum.coef - 1, level |-> level]

\* parts.reduce((s, p) => s + p.gamma, 0)
RECURSIVE ReduceGamma(_, _, _)
ReduceGamma(parts, i, sum) ==
  IF i > Len(parts) THEN sum ELSE ReduceGamma(parts, i + 1, FlAdd(sum, parts[i].level))

\* gi_strength / poolSum for a strength above zero: a division by zero gives
\* Infinity.
DivideStrength(sum) == IF sum.coef = 0 THEN "Infinity" ELSE "finite"

\* a - b on kinds of doubles.
Negated(a) ==
  IF a = "Infinity" THEN "-Infinity" ELSE IF a = "-Infinity" THEN "Infinity" ELSE a

Subtracted(a, b) ==
  IF a = "NaN" \/ b = "NaN" THEN "NaN"
  ELSE IF b = "finite" THEN a
  ELSE IF a = b THEN "NaN"
  ELSE Negated(b)

\* frac * (1 - frac): finite for a finite frac, and Infinity times -Infinity
\* otherwise.
FracTimesRest(frac) ==
  IF frac = "finite" \/ frac = "NaN" THEN frac ELSE "-Infinity"

TermInit ==
  /\ \E n \in 2..MaxField :
       \E lv \in [1..n -> 0..MaxLevel] :
         /\ \A i, j \in 1..n : (lv[i] = lv[j] /\ lv[i] > 0) => i = j
         /\ termParts = [i \in 1..n |-> [pid |-> i, level |-> lv[i]]]
         /\ termPid \in 1..n
  /\ termK = 0
  /\ termPoolSum = ZeroSum
  /\ termDivisor = ZeroSum
  /\ termFrac = "finite"
  /\ termGrad = "finite"
  /\ termHess = "finite"
  /\ termPhase = "input"
  /\ NormAtRest
  /\ EloAtRest
  /\ WhrAtRest
  /\ DbAtRest
  /\ ScriptsAtRest
  /\ KAtRest
  /\ CfAtRest
  /\ SeedAtRest
  /\ NewtonAtRest
  /\ OsAtRest

\* let grad = 0; let hess = 0; let poolSum = parts.reduce(...)
TermStart ==
  /\ termPhase = "input"
  /\ termPoolSum' = ReduceGamma(termParts, 1, ZeroSum)
  /\ termGrad' = "finite"
  /\ termHess' = "finite"
  /\ termPhase' = "loop"
  /\ UNCHANGED <<termParts, termPid, termK, termDivisor, termFrac,
                 unitVars, scriptVars, kVars, cfVars, seedVars, newtonVars, osVars>>

\* One turn of for (let k = 0; k < parts.length - 1; k++), with the break.
TermRound ==
  /\ termPhase = "loop"
  /\ LET frac == DivideStrength(termPoolSum)
         chosen == termParts[termK + 1].pid = termPid
     IN  /\ termFrac' = frac
         /\ termDivisor' = termPoolSum
         /\ termGrad' = IF chosen THEN Subtracted(termGrad, Negated(Subtracted("finite", frac)))
                        ELSE Subtracted(termGrad, frac)
         /\ termHess' = Subtracted(termHess, FracTimesRest(frac))
         /\ termPoolSum' = FlSub(termPoolSum, termParts[termK + 1].level)
         /\ termK' = termK + 1
         /\ termPhase' = IF chosen \/ termK + 1 >= Len(termParts) - 1 THEN "done" ELSE "loop"
  /\ UNCHANGED <<termParts, termPid,
                 unitVars, scriptVars, kVars, cfVars, seedVars, newtonVars, osVars>>

TermNext == TermStart \/ TermRound

SpecTerm == TermInit /\ [][TermNext]_vars

(***************************************************************************)
(* SpecOS: calculateOSChanges applied to every field within the bounds.    *)
(* rate() belongs to the openskill package: it is handed the teams and the *)
(* ranks and returns one rating per team, any of OsRatings.                *)
(***************************************************************************)
OsInit ==
  /\ \E n \in 2..MaxField :
       \E r \in [1..n -> OsRatings] : \E pos \in [1..n -> CfPositions] :
         osPlayers = [i \in 1..n |->
                        [id |-> i, mu |-> r[i].mu, sigma |-> r[i].sigma, position |-> pos[i]]]
  /\ osRanks = <<>>
  /\ osUpdated = <<>>
  /\ osResults = <<>>
  /\ osPhase = "input"
  /\ NormAtRest
  /\ EloAtRest
  /\ WhrAtRest
  /\ DbAtRest
  /\ ScriptsAtRest
  /\ KAtRest
  /\ CfAtRest
  /\ SeedAtRest
  /\ NewtonAtRest
  /\ TermAtRest

\* The sort, the rank array and the call of rate().
OsRate ==
  /\ osPhase = "input"
  /\ osRanks' = OsRanks(SortByPositionField(osPlayers))
  /\ osUpdated' \in [DOMAIN osPlayers -> OsRatings]
  /\ osPhase' = "rated"
  /\ UNCHANGED <<osPlayers, osResults,
                 unitVars, scriptVars, kVars, cfVars, seedVars, newtonVars, termVars>>

\* Map back to player IDs, and the return.
OsMapBack ==
  /\ osPhase = "rated"
  /\ osResults' = calculateOSChanges(osPlayers, osUpdated)
  /\ osPhase' = "returned"
  /\ UNCHANGED <<osPlayers, osRanks, osUpdated,
                 unitVars, scriptVars, kVars, cfVars, seedVars, newtonVars, termVars>>

OsNext == OsRate \/ OsMapBack

SpecOS == OsInit /\ [][OsNext]_vars

(***************************************************************************)
(* SpecWhrFaults: submitGame calls, one after the other, for registered    *)
(* players, with the failures that can happen inside recomputeWHR.  An     *)
(* awaited database call of recomputeWHR either returns an error, which    *)
(* the function does not look at beyond the two reads, or rejects, which   *)
(* the try/catch around the call of recomputeWHR catches.                  *)
(***************************************************************************)
WhrPcs == {"readGames", "readResults", "updateRows", "updateWhrPlayers"}

NonFatal == "WHR recomputation failed (non-fatal)"

SubmitRegistered ==
  /\ call.pc \in {"idle", "returned"}
  /\ submissions < MaxGames
  /\ \E ids \in ConcurrentForms :
       call' = [NoCall EXCEPT !.pc = "fetchPlayers",
                              !.formData = FormOf(ids),
                              !.normalized = normalizeRankings(FormOf(ids))]
  /\ submissions' = submissions + 1
  /\ now' = now + TicksPerDay
  /\ UNCHANGED <<players, games, gameResults, faults, otherVars>>

\* if (!allResults) return
ReadResultsFails ==
  /\ call.pc = "readResults"
  /\ faults < MaxFaults
  /\ call' = [call EXCEPT !.pc = "returned"]
  /\ faults' = faults + 1
  /\ UNCHANGED <<players, games, gameResults, now, submissions, otherVars>>

\* The update of a row returns an error: nobody looks, the loop goes on.
UpdateWhrRowFails ==
  /\ call.pc = "updateRows"
  /\ faults < MaxFaults
  /\ call' = IF call.idx < Len(call.queue)
             THEN [call EXCEPT !.idx = @ + 1]
             ELSE [call EXCEPT !.idx = 1,
                               !.queue = allPids(BuildWhrGames(call.allGames, call.allResults)),
                               !.pc = "updateWhrPlayers"]
  /\ faults' = faults + 1
  /\ UNCHANGED <<players, games, gameResults, now, submissions, otherVars>>

\* The update of a player returns an error: nobody looks, the loop goes on.
UpdateWhrPlayerFails ==
  /\ call.pc = "updateWhrPlayers"
  /\ faults < MaxFaults
  /\ call' = IF call.idx < Len(call.queue)
             THEN [call EXCEPT !.idx = @ + 1]
             ELSE [call EXCEPT !.pc = "returned"]
  /\ faults' = faults + 1
  /\ UNCHANGED <<players, games, gameResults, now, submissions, otherVars>>

\* Without the try/catch the rejection leaves submitGame as an exception.
RecomputeThrowsUncaught ==
  /\ call.pc \in WhrPcs
  /\ faults < MaxFaults
  /\ call' = Throw(NonFatal)
  /\ faults' = faults + 1
  /\ UNCHANGED <<players, games, gameResults, now, submissions, otherVars>>

\* An await of recomputeWHR rejects: catch (e) logs it, and submitGame goes
\* on to return { success: true, gameId }.
RecomputeThrows ==
  /\ call.pc \in WhrPcs
  /\ faults < MaxFaults
  /\ call' = [call EXCEPT !.pc = "returned", !.error = NonFatal]
  /\ faults' = faults + 1
  /\ UNCHANGED <<players, games, gameResults, now, submissions, otherVars>>

WhrFaultsNext ==
  \/ SubmitRegistered
  \/ FetchPlayersReturns
  \/ CountGames
  \/ ComputeChanges
  \/ InsertGame
  \/ UpdatePlayer
  \/ InsertResults
  \/ ReadGames
  \/ ReadGamesFails
  \/ ReadResults
  \/ ReadResultsFails
  \/ UpdateWhrRow
  \/ UpdateWhrRowFails
  \/ UpdateWhrPlayer
  \/ UpdateWhrPlayerFails
  \/ RecomputeThrows

SpecWhrFaults == Init /\ [][WhrFaultsNext]_vars

(***************************************************************************)
(* Properties of normalizeRankings.                                        *)
(***************************************************************************)
NormReturned == normPhase = "returned"

SubmittedIds == {rawRankings[i].playerId : i \in DOMAIN rawRankings}
IndicesOf(p) == {i \in DOMAIN rawRankings : rawRankings[i].playerId = p}
RecordsOf(p) == {i \in DOMAIN normalized : normalized[i].playerId = p}

RECURSIVE SumAt(_)
SumAt(I) ==
  IF I = {} THEN 0
  ELSE LET i == CHOOSE j \in I : TRUE IN rawRankings[i].position + SumAt(I \ {i})

MinAt(I) == CHOOSE m \in {rawRankings[i].position : i \in I} :
              \A i \in I : m <= rawRankings[i].position
MaxAt(I) == CHOOSE m \in {rawRankings[i].position : i \in I} :
              \A i \in I : m >= rawRankings[i].position

\* C1: for a non-empty list, normalizeRankings returns exactly one record per
\* distinct submitted playerId (and none for anyone else), and the record's
\* normalizedPosition is the sum of that player's submitted positions divided
\* by their count.
C1_OneRecordPerPlayerWithMean ==
  (NormReturned /\ rawRankings # <<>>) =>
    /\ \A p \in SubmittedIds : Cardinality(RecordsOf(p)) = 1
    /\ \A i \in DOMAIN normalized :
         LET rec == normalized[i]
             I == IndicesOf(rec.playerId)
         IN  /\ I # {}
             /\ rec.normalizedPosition.den > 0
             /\ rec.normalizedPosition.num * Cardinality(I)
                  = SumAt(I) * rec.normalizedPosition.den

\* A returned list with two players, one of them submitted more than once.
C1_Witness ==
  /\ NormReturned
  /\ Len(normalized) = 2
  /\ \E p \in SubmittedIds : Cardinality(IndicesOf(p)) >= 2 /\ MinAt(IndicesOf(p)) < MaxAt(IndicesOf(p))

\* C2: the returned list never decreases in normalizedPosition from one
\* record to the next, and each record's rawPositions is that player's
\* submitted positions in ascending order.
C2_SortedOutput ==
  NormReturned =>
    /\ \A i \in 1..(Len(normalized) - 1) :
         ~PosLess(normalized[i + 1].normalizedPosition, normalized[i].normalizedPosition)
    /\ \A i \in DOMAIN normalized :
         LET raw == normalized[i].rawPositions
             I == IndicesOf(normalized[i].playerId)
         IN  /\ Len(raw) = Cardinality(I)
             /\ \A k \in 1..(Len(raw) - 1) : raw[k] <= raw[k + 1]
             /\ \A v \in 0..MaxPos :
                  Cardinality({k \in DOMAIN raw : raw[k] = v})
                    = Cardinality({j \in I : rawRankings[j].position = v})

\* The input lists its players worst first and one player's positions in
\* descending order, so both sorts have work to do.
C2_Witness ==
  /\ NormReturned
  /\ Len(rawRankings) = 3
  /\ rawRankings[1].playerId = rawRankings[2].playerId
  /\ rawRankings[1].position > rawRankings[2].position
  /\ rawRankings[3].playerId # rawRankings[1].playerId
  /\ rawRankings[3].position < rawRankings[2].position
  /\ normalized[1].playerId = rawRankings[3].playerId

\* A list as the game produces it: every index positive, no index twice.
WellFormedRaw ==
  /\ \A i \in DOMAIN rawRankings : rawRankings[i].position >= 1
  /\ \A i, j \in DOMAIN rawRankings :
       i # j => rawRankings[i].position # rawRankings[j].position

\* C3 as stated (on well-formed lists): one index gives that index; more than
\* one index gives a non-integer value strictly between the smallest and the
\* largest index.
C3_FractionalStrictlyBetween ==
  (NormReturned /\ WellFormedRaw) =>
    \A i \in DOMAIN normalized :
      LET np == normalized[i].normalizedPosition
          I == IndicesOf(normalized[i].playerId)
      IN  IF Cardinality(I) = 1
          THEN PosEq(np, PosOfInt(MinAt(I)))
          ELSE /\ np.num % np.den # 0
               /\ PosLess(PosOfInt(MinAt(I)), np)
               /\ PosLess(np, PosOfInt(MaxAt(I)))

\* C3 amended: one index gives that index; more than one index, not all
\* equal, gives a value strictly between the smallest and the largest index
\* (which may be a whole number, as for indices 1 and 3); all-equal indices
\* give that index.
C3_StrictlyBetweenWhenIndicesDiffer ==
  NormReturned =>
    \A i \in DOMAIN normalized :
      LET np == normalized[i].normalizedPosition
          I == IndicesOf(normalized[i].playerId)
      IN  IF MinAt(I) = MaxAt(I)
          THEN PosEq(np, PosOfInt(MinAt(I)))
          ELSE /\ PosLess(PosOfInt(MinAt(I)), np)
               /\ PosLess(np, PosOfInt(MaxAt(I)))

\* A player eliminated at indices 1 and 3 is normalized to the whole number 2.
C3_Witness ==
  /\ NormReturned
  /\ \E i \in DOMAIN normalized :
       /\ normalized[i].rawPositions = <<1, 3>>
       /\ PosEq(normalized[i].normalizedPosition, PosOfInt(2))

\* C4: an empty list, or a list with a zero or negative elimination index,
\* is rejected: normalizeRankings does not return for it.
C4_InvalidInputRejected ==
  (rawRankings = <<>> \/ \E i \in DOMAIN rawRankings : rawRankings[i].position <= 0)
    => ~NormReturned

(***************************************************************************)
(* Properties of calculateEloChanges.                                      *)
(***************************************************************************)
EloSummed == eloPhase \in {"summed", "rounded"}

RECURSIVE SumOfChanges(_, _)
SumOfChanges(changes, ids) ==
  IF ids = {} THEN 0
  ELSE LET id == CHOOSE x \in ids : TRUE IN changes[id] + SumOfChanges(changes, ids \ {id})

SameGamesPlayed ==
  \A i, j \in DOMAIN eloPlayers : eloPlayers[i].gamesPlayed = eloPlayers[j].gamesPlayed

\* The actual score the claim gives player i against player j, in 1/ScoreScale.
ClaimedScore(i, j) ==
  LET a == eloPlayers[i].position
      b == eloPlayers[j].position
  IN  IF a.num * b.den < b.num * a.den THEN ScoreScale
      ELSE IF a.num * b.den = b.num * a.den THEN ScoreScale \div 2
      ELSE 0

\* What the pair {i, j} gives player i, in 1/DeltaScale.
ClaimedPairDelta(i, j) ==
  getKFactor(eloPlayers[i].gamesPlayed)
    * (ClaimedScore(i, j) - getExpectedScore(eloPlayers[i].elo, eloPlayers[j].elo))

RECURSIVE ClaimedTotal(_, _)
ClaimedTotal(i, others) ==
  IF others = {} THEN 0
  ELSE LET j == CHOOSE x \in others : TRUE
       IN  ClaimedPairDelta(i, j) + ClaimedTotal(i, others \ {j})

Tied(i, j) == i # j /\ PosEq(eloPlayers[i].position, eloPlayers[j].position)

PairwiseDecomposition ==
  \A i \in DOMAIN eloPlayers :
    eloUnrounded[eloPlayers[i].id] = ClaimedTotal(i, DOMAIN eloPlayers \ {i})

StrictlyFirst(w) ==
  \A j \in DOMAIN eloPlayers \ {w} :
    PosLess(eloPlayers[w].position, eloPlayers[j].position)

\* The field without its entry b, the others as they were.
FieldWithout(b) ==
  [k \in 1..(Len(eloPlayers) - 1) |-> IF k < b THEN eloPlayers[k] ELSE eloPlayers[k + 1]]

\* C17: a player who finishes strictly ahead of every opponent has a strictly
\* larger unrounded delta than in the same game without one of the beaten
\* opponents; the difference is that opponent's pair, K (1 - E), entire: the
\* total is the plain sum over the pairs, not divided by N - 1.
C17_WinnerGainsWithFieldSize ==
  (EloSummed /\ Len(eloPlayers) > 2) =>
    \A w \in DOMAIN eloPlayers :
      StrictlyFirst(w) =>
        \A b \in DOMAIN eloPlayers \ {w} :
          LET smaller == UnroundedEloChanges(FieldWithout(b))[eloPlayers[w].id]
          IN  /\ eloUnrounded[eloPlayers[w].id] > smaller
              /\ eloUnrounded[eloPlayers[w].id] - smaller = ClaimedPairDelta(w, b)

\* The favourite of three players wins and gains more than against either
\* opponent alone.
C17_Witness ==
  /\ EloSummed
  /\ Len(eloPlayers) = 3
  /\ \E w \in DOMAIN eloPlayers :
       /\ StrictlyFirst(w)
       /\ \A b \in DOMAIN eloPlayers \ {w} :
            /\ eloPlayers[w].elo > eloPlayers[b].elo
            /\ eloUnrounded[eloPlayers[w].id] > UnroundedEloChanges(FieldWithout(b))[eloPlayers[w].id]

\* The entries of the best and the worst rated player of the example.
Favourite ==
  CHOOSE i \in DOMAIN ExampleRatings :
    \A j \in DOMAIN ExampleRatings : ExampleRatings[i] >= ExampleRatings[j]

Underdog ==
  CHOOSE i \in DOMAIN ExampleRatings :
    \A j \in DOMAIN ExampleRatings : ExampleRatings[i] <= ExampleRatings[j]

\* The example with the finishing order equal to the rating order.
RatingOrderField ==
  ExampleField([i \in DOMAIN ExampleRatings |-> i], eloPlayers[Favourite].gamesPlayed)

\* The underdog finishes first and the favourite last.
UpsetFinish ==
  /\ PosEq(eloPlayers[Underdog].position, PosOfInt(1))
  /\ PosEq(eloPlayers[Favourite].position, PosOfInt(Len(ExampleRatings)))

\* C18: with four players rated 1200, 1100, 1000 and 900 and equal K, the
\* delta of the 900-rated player who finishes first while the 1200-rated
\* player finishes last is strictly larger in magnitude, before and after
\* rounding, than the delta of the 1200-rated player when the finishing order
\* is the rating order.
C18_UpsetPaysMore ==
  (eloPhase = "rounded" /\ UpsetFinish) =>
    /\ Abs(eloUnrounded[Underdog]) > Abs(UnroundedEloChanges(RatingOrderField)[Favourite])
    /\ Abs(eloChanges[Underdog]) > Abs(calculateEloChanges(RatingOrderField)[Favourite])

\* The upset has been rated for players with K_DECAY_RATE games: the underdog
\* gains, and the favourite would have gained in the rating-order finish.
C18_Witness ==
  /\ eloPhase = "rounded"
  /\ UpsetFinish
  /\ eloPlayers[Underdog].gamesPlayed = K_DECAY_RATE
  /\ eloChanges[Underdog] > 0
  /\ calculateEloChanges(RatingOrderField)[Favourite] > 0

(***************************************************************************)
(* Properties of calculateCFChanges.                                       *)
(***************************************************************************)
\* 1 plus the sum over the other players of P(other beats player i), in
\* 1/ScoreScale, with P the Elo expected score of the other against i.
RECURSIVE SumOfBeats(_, _)
SumOfBeats(i, others) ==
  IF others = {} THEN 0
  ELSE LET j == CHOOSE x \in others : TRUE
       IN  getExpectedScore(cfPlayers[j].rating, cfPlayers[i].rating)
             + SumOfBeats(i, others \ {j})

ClaimedExpectedRank(i) == ScoreScale + SumOfBeats(i, DOMAIN cfPlayers \ {i})

ExpectedRankAsPosition(i) == [num |-> ClaimedExpectedRank(i), den |-> ScoreScale]

\* C19: in calculateCFChanges each unrounded delta is K times (expected rank
\* minus position), the expected rank being 1 plus the sum over the others of
\* P(other beats player); the delta is strictly positive exactly when the
\* position is smaller than the expected rank, strictly negative exactly when
\* it is larger, and the rounded delta never has the opposite sign.
C19_DeltaFollowsExpectedRank ==
  cfPhase = "returned" =>
    \A i \in DOMAIN cfPlayers :
      LET pos == cfPlayers[i].position
          delta == cfDeltas[i]
      IN  /\ delta.den = pos.den * DeltaScale
          /\ delta.num = getKFactor(cfPlayers[i].gamesPlayed)
                           * (ClaimedExpectedRank(i) * pos.den - pos.num * ScoreScale)
          /\ delta.num > 0 <=> PosLess(pos, ExpectedRankAsPosition(i))
          /\ delta.num < 0 <=> PosLess(ExpectedRankAsPosition(i), pos)
          /\ delta.num > 0 => cfChanges[cfPlayers[i].id] >= 0
          /\ delta.num < 0 => cfChanges[cfPlayers[i].id] <= 0

\* A field in which one player does better than expected, one worse, and one
\* exactly as expected.
C19_Witness ==
  /\ cfPhase = "returned"
  /\ \E i, j, k \in DOMAIN cfPlayers :
       /\ cfDeltas[i].num > 0 /\ cfChanges[cfPlayers[i].id] > 0
       /\ cfDeltas[j].num < 0 /\ cfChanges[cfPlayers[j].id] < 0
       /\ cfDeltas[k].num = 0 /\ cfChanges[cfPlayers[k].id] = 0

(***************************************************************************)
(* Properties of computeWHR.                                               *)
(***************************************************************************)
WhrReturned == whrPhase = "returned"

\* The history with entries i and j of game g's players array exchanged.
SwapListed(history, g, i, j) ==
  [history EXCEPT ![g].players =
     [k \in DOMAIN @ |-> IF k = i THEN @[j] ELSE IF k = j THEN @[i] ELSE @[k]]]

\* Entries i < j of game g's players array hold the same position.
TiedInGame(history, g, i, j) ==
  /\ i < j
  /\ PosEq(history[g].players[i].position, history[g].players[j].position)

PositionsIn(game, p) ==
  {game.players[i].position : i \in {k \in DOMAIN game.players : game.players[k].playerId = p}}

\* p and q play the same games and hold the same position in each of them.
IdenticalHistories(history, p, q) ==
  \A g \in DOMAIN history : PositionsIn(history[g], p) = PositionsIn(history[g], q)

\* C7: computeWHR treats two players with the same position in a game as a
\* draw: exchanging the two tied players in that game's players array changes
\* no output rating, and two tied players with otherwise identical histories
\* end with identical ratings.
C7_TiesAreDraws ==
  WhrReturned =>
    /\ \A g \in DOMAIN whrGames : \A i, j \in DOMAIN whrGames[g].players :
         TiedInGame(whrGames, g, i, j) =>
           computeWHR(SwapListed(whrGames, g, i, j)) = whrResult
    /\ \A p, q \in DOMAIN whrResult.playerRatings :
         IdenticalHistories(whrGames, p, q) =>
           whrResult.playerRatings[p] = whrResult.playerRatings[q]

\* The games of the history in which p is listed, as indices of the array.
GamesWith(history, p) ==
  {g \in DOMAIN history : \E i \in DOMAIN history[g].players : history[g].players[i].playerId = p}

\* Game f is played before game g: earlier timestamp, or the same timestamp
\* and an earlier place in the array.
PlayedBefore(history, f, g) ==
  \/ history[f].playedAt < history[g].playedAt
  \/ history[f].playedAt = history[g].playedAt /\ f < g

\* The games p played before game g.
EarlierGamesOf(history, p, g) == {f \in GamesWith(history, p) : PlayedBefore(history, f, g)}

\* p's immediately preceding game: the latest of the games p played before g.
PrecedingGame(history, p, g) ==
  CHOOSE f \in EarlierGamesOf(history, p, g) :
    \A e \in EarlierGamesOf(history, p, g) : e = f \/ PlayedBefore(history, e, f)

\* The rating p's change in game g is claimed to be measured from.
ClaimedPrevious(history, result, p, g) ==
  IF EarlierGamesOf(history, p, g) = {}
  THEN DefaultRating
  ELSE result.gameSnapshots[history[PrecedingGame(history, p, g)].gameId][p]

\* C11: in computeWHR's output, every participant of every game has exactly
\* one snapshot entry and one change entry for that game, and the change is the
\* snapshot minus the participant's snapshot in their immediately preceding
\* game by timestamp, or minus 1000 when the game is their first.
C11_ChangeIsSnapshotDifference ==
  WhrReturned =>
    \A g \in DOMAIN whrGames :
      LET id == whrGames[g].gameId
      IN  /\ id \in DOMAIN whrResult.gameSnapshots
          /\ id \in DOMAIN whrResult.gameChanges
          /\ DOMAIN whrResult.gameSnapshots[id] = {p \in PlayerIds : g \in GamesWith(whrGames, p)}
          /\ DOMAIN whrResult.gameChanges[id] = DOMAIN whrResult.gameSnapshots[id]
          /\ \A p \in DOMAIN whrResult.gameSnapshots[id] :
               whrResult.gameChanges[id][p] =
                 whrResult.gameSnapshots[id][p] - ClaimedPrevious(whrGames, whrResult, p, g)

\* A player's second game by timestamp stands first in the array, and the
\* change in it is measured from a snapshot other than 1000.
C11_Witness ==
  /\ WhrReturned
  /\ \E g \in DOMAIN whrGames : \E p \in PlayerIds :
       /\ g \in GamesWith(whrGames, p)
       /\ \E f \in EarlierGamesOf(whrGames, p, g) : f > g
       /\ ClaimedPrevious(whrGames, whrResult, p, g) # DefaultRating
       /\ whrResult.gameChanges[whrGames[g].gameId][p] # 0

\* p's chronologically last game: no other game of p is played after it.
LastGame(history, p) ==
  CHOOSE g \in GamesWith(history, p) :
    \A f \in GamesWith(history, p) : f = g \/ PlayedBefore(history, f, g)

\* playerRatings holds, for exactly the players of the history, the snapshot
\* of the player's chronologically last game.
RatingIsLastSnapshot(history, result) ==
  /\ DOMAIN result.playerRatings = {p \in PlayerIds : GamesWith(history, p) # {}}
  /\ \A p \in DOMAIN result.playerRatings :
       result.playerRatings[p] = result.gameSnapshots[history[LastGame(history, p)].gameId][p]

\* recomputeWHR ran to its last write and submitGame returned.
RecomputeCompleted == call.pc = "returned" /\ call.whrResult # <<>>

\* The rows of player p in game_results, and the one of p's latest game.
RowsOfPlayer(p) == {i \in DOMAIN gameResults : gameResults[i].player_id = p}

LatestRowOf(p) ==
  CHOOSE i \in RowsOfPlayer(p) :
    \A j \in RowsOfPlayer(p) :
      games[gameResults[j].game_id].played_at <= games[gameResults[i].game_id].played_at

WhrPersistedOverTwoGames ==
  /\ RecomputeCompleted
  /\ \E p \in DOMAIN players : \E i \in RowsOfPlayer(p) :
       /\ Cardinality(RowsOfPlayer(p)) > 1
       /\ gameResults[i].whr_after # Null
       /\ gameResults[i].whr_after # players[p].whr_rating

DistinctTimestamps(history) ==
  \A f, g \in DOMAIN history : f # g => history[f].playedAt # history[g].playedAt

InTimestampOrder(history) ==
  \A f, g \in DOMAIN history : f < g => history[f].playedAt < history[g].playedAt

\* The same games in another array order, and the orders that are chronological.
Reordered(history, f) == [i \in DOMAIN history |-> history[f[i]]]

ChronologicalOrders(history) ==
  {f \in [DOMAIN history -> DOMAIN history] :
     /\ \A i, j \in DOMAIN history : i # j => f[i] # f[j]
     /\ InTimestampOrder(Reordered(history, f))}

\* C13 as stated: for games with distinct timestamps supplied out of
\* chronological order, the result differs from the result for the same games
\* supplied in timestamp order (computeWHR has no rejecting path).
C13_OutOfOrderChangesResult ==
  (WhrReturned /\ DistinctTimestamps(whrGames) /\ ~InTimestampOrder(whrGames)) =>
    \A f \in ChronologicalOrders(whrGames) : computeWHR(Reordered(whrGames, f)) # whrResult

\* C13 amended: for games with distinct timestamps the result does not depend
\* on the order of the games array; out of chronological order the engine
\* returns what it returns for the same games in timestamp order.
C13_ArrayOrderIsIrrelevant ==
  (WhrReturned /\ DistinctTimestamps(whrGames) /\ ~InTimestampOrder(whrGames)) =>
    \A f \in ChronologicalOrders(whrGames) : computeWHR(Reordered(whrGames, f)) = whrResult

\* computeWHR returned for two games out of chronological order that share a
\* player whose rating moved between them.
C13_Witness ==
  /\ WhrReturned
  /\ DistinctTimestamps(whrGames)
  /\ ~InTimestampOrder(whrGames)
  /\ \E p \in PlayerIds :
       /\ Cardinality(GamesWith(whrGames, p)) > 1
       /\ \E g \in GamesWith(whrGames, p) :
            whrResult.gameSnapshots[whrGames[g].gameId][p] # whrResult.playerRatings[p]

\* p plays every game of the history and finishes strictly ahead of every
\* other participant, or strictly behind every other participant.
AlwaysFirst(history, p) ==
  \A g \in DOMAIN history :
    /\ g \in GamesWith(history, p)
    /\ \A i, j \in DOMAIN history[g].players :
         (history[g].players[i].playerId = p /\ history[g].players[j].playerId # p) =>
           PosLess(history[g].players[i].position, history[g].players[j].position)

AlwaysLast(history, q) ==
  \A g \in DOMAIN history :
    /\ g \in GamesWith(history, q)
    /\ \A i, j \in DOMAIN history[g].players :
         (history[g].players[i].playerId = q /\ history[g].players[j].playerId # q) =>
           PosLess(history[g].players[j].position, history[g].players[i].position)

EloBalances(row) == row.elo_after = row.elo_before + row.elo_change
CfBalances(row) == row.cf_after = row.cf_before + row.cf_change
OsBalances(row) == row.os_after = row.os_before + row.os_change
WhrWritten(row) == row.whr_after # Null
WhrBalances(row) ==
  /\ row.whr_before # Null
  /\ row.whr_change # Null
  /\ row.whr_after = row.whr_before + row.whr_change

\* C8: every game_results row written by submitGame satisfies
\* after = before + change for Elo, CF and OpenSkill, and every row updated by
\* recomputeWHR satisfies whr_after = whr_before + whr_change, as integers.
C8_AfterIsBeforePlusChange ==
  \A i \in DOMAIN gameResults :
    /\ EloBalances(gameResults[i])
    /\ CfBalances(gameResults[i])
    /\ OsBalances(gameResults[i])
    /\ WhrWritten(gameResults[i]) => WhrBalances(gameResults[i])

\* A row of a player's second game, every rating of which moved, from a stored
\* rating that the first game had already moved.
C8_Witness ==
  \E i \in DOMAIN gameResults :
    /\ gameResults[i].game_id = 2
    /\ gameResults[i].elo_before # DefaultRating
    /\ gameResults[i].elo_change # 0
    /\ gameResults[i].cf_before # DefaultRating
    /\ gameResults[i].cf_change # 0
    /\ gameResults[i].os_before # osOrdinal(newOSRating)
    /\ gameResults[i].os_change # 0
    /\ WhrWritten(gameResults[i])
    /\ gameResults[i].whr_change # 0
    /\ gameResults[i].whr_before # DefaultRating

\* The form of the call names a player that the players table does not hold.
UnknownSubmitted ==
  \E i \in DOMAIN call.formData : call.formData[i].playerId \notin DOMAIN players

\* C9: if a submitted playerId does not exist in the players table, submitGame
\* fails before anything is persisted: from the moment such a call is made no
\* step inserts a games row or a game_results row or changes a stored rating,
\* and the call does not return.
C9_UnknownPlayerPersistsNothing ==
  [][UnknownSubmitted' =>
       /\ UNCHANGED <<players, games, gameResults>>
       /\ call'.pc # "returned"]_vars

\* A call naming an unknown player has thrown, after an earlier game was stored.
C9_Witness ==
  /\ UnknownSubmitted
  /\ call.pc = "thrown"
  /\ call.error = "Cannot read properties of undefined"
  /\ games # <<>>
  /\ gameResults # <<>>

\* No call is running, and every call made so far inserted its game and the
\* game's results, that is, returned success.
AllSubmissionsSucceeded ==
  /\ call.pc \in {"idle", "returned"}
  /\ Len(games) = submissions
  /\ \A g \in DOMAIN games : \E i \in DOMAIN gameResults : gameResults[i].game_id = g

\* The rows of one player, oldest game first.
ResultsOf(p) == SelectSeq(gameResults, LAMBDA row : row.player_id = p)

EloChain(p) ==
  LET rows == ResultsOf(p)
  IN  /\ \A k \in DOMAIN rows :
           rows[k].elo_before = IF k = 1 THEN DefaultRating ELSE rows[k - 1].elo_after
      /\ rows # <<>> => players[p].initial_elo = rows[Len(rows)].elo_after

\* C10: after any sequence of successful game submissions, for every player
\* the elo_before of each result equals the elo_after of that player's
\* previous result (or 1000 for the first), and the player's stored rating
\* equals the elo_after of their latest result.
C10_EloHistoryReconstructs ==
  AllSubmissionsSucceeded => \A p \in DOMAIN players : EloChain(p)

\* The same, for the runs in which no database call returned an error.
EloHistoryReconstructsWithoutFaults ==
  (AllSubmissionsSucceeded /\ faults = 0) => \A p \in DOMAIN players : EloChain(p)

(***************************************************************************)
(* Properties of concurrent submitGame calls.                              *)
(***************************************************************************)
\* Every call that was made has returned, and none is still to be made.
AllCallsFinished ==
  /\ call.pc = "returned"
  /\ \A c \in DOMAIN waiting : waiting[c].pc = "returned"

\* computeWHR over the history as it stands in the database.
WhrOfFullHistory == computeWHR(BuildWhrGames(OrderByPlayedAt(games), gameResults))

\* Every persisted WHR value is the one computeWHR gives for the full history.
PersistedWhrIs(result) ==
  /\ \A i \in DOMAIN gameResults :
       LET row == gameResults[i]
       IN  /\ row.whr_after = result.gameSnapshots[row.game_id][row.player_id]
           /\ row.whr_change = result.gameChanges[row.game_id][row.player_id]
           /\ row.whr_before = row.whr_after - row.whr_change
  /\ \A p \in DOMAIN result.playerRatings :
       p \in DOMAIN players => players[p].whr_rating = result.playerRatings[p]

\* C14: WHR recomputation has exclusive access to the history, so that after
\* any interleaving of concurrent submitGame calls, once all calls have
\* finished, the persisted WHR values (whr_before, whr_after and whr_change of
\* every result row, whr_rating of every player) are those of one computeWHR
\* run over the final full history.
C14_PersistedWhrIsOfFinalHistory ==
  AllCallsFinished => PersistedWhrIs(WhrOfFullHistory)

(***************************************************************************)
(* Properties of the gamesPlayed input across the paths.                   *)
(***************************************************************************)
\* The three paths have dealt with game g, the last one so far.
GameRated(g) == scriptIndex = g /\ scriptPhase = "live" /\ g > 0

ParticipantsOf(g) == {scriptGames[g][i].playerId : i \in DOMAIN scriptGames[g]}

\* The games among the first g - 1 that p took part in.
GamesPlayedBefore(p, g) == Cardinality({f \in 1..(g - 1) : p \in ParticipantsOf(f)})

\* C15: the games-played count that sets a player's K-factor for a game is the
\* same on every path: submitGame, the replay of recalculate and the seeding
\* script each pass calculateEloChanges the number of games the player played
\* before that game.
C15_SameGamesPlayedOnEveryPath ==
  \A g \in DOMAIN scriptGames :
    GameRated(g) =>
      \A p \in ParticipantsOf(g) :
        /\ gamesPlayedUsed.live[p] = GamesPlayedBefore(p, g)
        /\ gamesPlayedUsed.recalculate[p] = GamesPlayedBefore(p, g)
        /\ gamesPlayedUsed.seed[p] = GamesPlayedBefore(p, g)

\* submitGame and recalculate by themselves agree on the count.
LiveAndRecalculateAgree ==
  \A g \in DOMAIN scriptGames :
    GameRated(g) =>
      \A p \in ParticipantsOf(g) :
        /\ gamesPlayedUsed.live[p] = GamesPlayedBefore(p, g)
        /\ gamesPlayedUsed.recalculate[p] = GamesPlayedBefore(p, g)

SeedRowsOf(name) == {i \in DOMAIN seedResults : seedResults[i].player_id = name}

RECURSIVE SeedChangeSum(_)
SeedChangeSum(I) ==
  IF I = {} THEN 0
  ELSE LET i == CHOOSE x \in I : TRUE
       IN  seedResults[i].elo_change + SeedChangeSum(I \ {i})

\* The player's rating after every game dated before the given date and
\* before any game dated later.
RatingAsOf(name, date) ==
  DefaultRating + SeedChangeSum({i \in SeedRowsOf(name) : seedResults[i].played_at < date})

\* C21: the seeding script rates each game from the players' ratings as they
\* stand after all games with an earlier date and before any game with a
\* later date.
C21_SeedReplaysInDateOrder ==
  seedPhase \in {"games", "done"} =>
    \A i \in DOMAIN seedResults :
      seedResults[i].elo_before = RatingAsOf(seedResults[i].player_id, seedResults[i].played_at)

\* What the loop does instead: each game is rated from the ratings left by the
\* games before it in the array.
SeedReplaysInArrayOrder ==
  seedPhase \in {"games", "done"} =>
    \A i \in DOMAIN seedResults :
      seedResults[i].elo_before =
        DefaultRating
          + SeedChangeSum({j \in SeedRowsOf(seedResults[i].player_id) :
                             seedResults[j].game_id < seedResults[i].game_id})

(***************************************************************************)
(* Properties of the Newton loop of computeWHR.                            *)
(***************************************************************************)
Visited == whrVisit # NoVisit

\* hess < -1e-6 for the Hessian of the last visit.
BelowThreshold == whrVisit.hess < -(Million \div HessianThresholdInverse)

\* The latent value of the last visit, before and after it.
ValueBefore == whrVisit.before[whrVisit.pid][whrVisit.li]
ValueAfter == whrR[whrVisit.pid][whrVisit.li]

\* C22: a visit of the Newton sweep changes r[player][game] only when the
\* Hessian it computed is below -1e-6; at or above the threshold the value
\* stays exactly as it was; and the visit changes no other entry of r.
C22_NewtonStepGuarded ==
  Visited =>
    /\ DOMAIN whrR = DOMAIN whrVisit.before
    /\ \A q \in DOMAIN whrR :
         /\ DOMAIN whrR[q] = DOMAIN whrVisit.before[q]
         /\ \A j \in DOMAIN whrR[q] :
              (q # whrVisit.pid \/ j # whrVisit.li) => whrR[q][j] = whrVisit.before[q][j]
    /\ (~BelowThreshold => ValueAfter = ValueBefore)
    /\ (ValueAfter # ValueBefore => BelowThreshold)

\* A visit whose gradient asked for a step and whose Hessian was at or above
\* the threshold, after earlier visits have moved other values.
C22_Witness ==
  /\ Visited
  /\ ~BelowThreshold
  /\ whrVisit.grad # 0
  /\ ValueAfter = ValueBefore
  /\ \E q \in DOMAIN whrR : \E j \in DOMAIN whrR[q] : whrR[q][j] # 0

\* A visit that applied the step.
NewtonStepApplied == Visited /\ BelowThreshold /\ ValueAfter # ValueBefore

\* The visits of the last sweep begun that were for the player's latent value
\* at the game.
VisitsOf(pid, gi) ==
  {i \in DOMAIN whrSeen :
     /\ whrSeen[i][1] = pid
     /\ pGames(SortedGames(whrGames), pid)[whrSeen[i][2]] = gi}

\* A sweep has just run to its end.
SweepCompleted == whrPhase # "input" /\ whrIter > 0 /\ whrCursor = 0

\* No latent value is visited twice in a sweep; a completed sweep has visited
\* the latent value of every player at every game the player is in; and the
\* function returns after ITERATIONS completed sweeps, not before.
SweepsAreComplete ==
  /\ whrIter \in 0..ITERATIONS
  /\ whrPhase # "input" =>
       \A gi \in DOMAIN whrGames :
         \A e \in DOMAIN SortedGames(whrGames)[gi].players :
           LET visits == VisitsOf(SortedGames(whrGames)[gi].players[e].playerId, gi)
           IN  /\ Cardinality(visits) <= 1
               /\ SweepCompleted => Cardinality(visits) = 1
  /\ SweepCompleted =>
       Len(whrSeen) = SumSeq([gi \in DOMAIN whrGames |-> Len(whrGames[gi].players)])
  /\ whrPhase = "returned" => (whrIter = ITERATIONS /\ whrCursor = 0)

\* C25: computeWHR terminates on every history: it returns after exactly
\* ITERATIONS = 100 sweeps, each of which visits every (player, game) latent
\* value exactly once, whatever the ratings reached.
C25_ReturnsAfterAllSweeps == []SweepsAreComplete /\ <>(whrPhase = "returned")

\* The return after the hundredth sweep of a history of several games, the
\* last visit having been stopped by the Hessian guard.
C25_Witness ==
  /\ whrPhase = "returned"
  /\ whrIter = ITERATIONS
  /\ Len(whrGames) = MaxGames
  /\ SweepCompleted
  /\ \E q \in DOMAIN whrR : \E j \in DOMAIN whrR[q] : whrR[q][j] # 0

\* parts of the last visit: the participants of its game in the order the
\* rounds take them, each with its latent value before the visit.
VisitParts ==
  LET sorted == SortedGames(whrGames)
  IN  Parts(sorted, whrVisit.before, pGames(sorted, whrVisit.pid)[whrVisit.li])

\* The round that selects the visited player.
RoundOfVisited == CHOOSE k \in DOMAIN VisitParts : VisitParts[k].pid = whrVisit.pid

\* The rounds that count: from the first up to the one that selects the
\* player, the last-placed participant having no round.
RoundsCounted ==
  IF RoundOfVisited <= Len(VisitParts) - 1 THEN RoundOfVisited ELSE Len(VisitParts) - 1

RECURSIVE StrengthsFrom(_, _)
StrengthsFrom(k, top) ==
  IF k > Len(VisitParts) THEN 0
  ELSE ExpOfMinus(top - VisitParts[k].rv) + StrengthsFrom(k + 1, top)

\* strength / pool sum in round k, the pool being the participants that no
\* earlier round has selected.
FractionInRound(k) ==
  LET top == MaxRv(VisitParts, k, ValueBefore)
  IN  NearestScaledDiv(ExpOfMinus(top - ValueBefore), StrengthsFrom(k, top), 6)

ClaimedGradient ==
  (IF RoundOfVisited <= Len(VisitParts) - 1 THEN Million ELSE 0)
    - SumSeq([k \in 1..RoundsCounted |-> FractionInRound(k)])

ClaimedHessian ==
  0 - SumSeq([k \in 1..RoundsCounted |->
                MulMillionth(FractionInRound(k), Million - FractionInRound(k))])

\* C24: the game term of a visit takes the rounds in ascending position order
\* over all participants but the last-placed; each round in which the player is
\* still in the pool adds 1 - fraction to the gradient if it selects the player
\* and -fraction otherwise, and -fraction * (1 - fraction) to the Hessian; the
\* pool of a round is what is left after removing the participants selected
\* before; and no round after the one that selects the player counts.
C24_GameTermByRounds ==
  Visited =>
    /\ \A k \in 1..(Len(VisitParts) - 1) : ~PosLess(VisitParts[k + 1].pos, VisitParts[k].pos)
    /\ whrVisit.game.grad = ClaimedGradient
    /\ whrVisit.game.hess = ClaimedHessian

\* A visit of the player selected first among three, after the ratings have
\* moved apart: one round counts and one does not.
C24_Witness ==
  /\ Visited
  /\ Len(VisitParts) = MaxField
  /\ RoundOfVisited = 1
  /\ PosLess(VisitParts[1].pos, VisitParts[2].pos)
  /\ \E k \in DOMAIN VisitParts : VisitParts[k].rv # ValueBefore
  /\ whrVisit.game.hess < 0

\* A visit of a player placed in the middle: a round that passes the player
\* over, then the round that selects it.
MiddlePlayerVisited ==
  /\ Visited
  /\ Len(VisitParts) = MaxField
  /\ RoundOfVisited = 2
  /\ whrVisit.game.grad # 0

(***************************************************************************)
(* Properties of the game term in doubles.                                 *)
(***************************************************************************)
FiniteKinds == {"zero", "finite"}

\* C23: when the remaining pool's strength sum is zero the fraction
\* strength/poolSum is taken as 0, and neither the gradient nor the Hessian
\* ever holds a NaN or an infinite value.
C23_ZeroPoolFractionIsZero ==
  termK > 0 =>
    /\ (termDivisor = ZeroSum => termFrac = "zero")
    /\ termGrad \in FiniteKinds
    /\ termHess \in FiniteKinds

\* A fraction over a pool sum that is not zero is finite.
FiniteOverNonZeroPool == (termK > 0 /\ termDivisor # ZeroSum) => termFrac = "finite"

(***************************************************************************)
(* Properties of calculateOSChanges.                                       *)
(***************************************************************************)
OsSorted == SortByPositionField(osPlayers)

\* The players placed strictly ahead of a position.
StrictlyAhead(position) ==
  {j \in DOMAIN osPlayers : PosLess(osPlayers[j].position, position)}

\* The entry of the sorted list that holds a player, and the rating rate()
\* returned for it.
OsIndexOf(id) == CHOOSE i \in DOMAIN OsSorted : OsSorted[i].id = id

\* C26: the rank handed to the rater for each player is 1 plus the number of
\* players with a strictly lower position; ranks do not decrease along the
\* position-sorted list; two players have the same rank exactly when their
\* positions are equal; and the change returned for a player is its new
\* ordinal minus the ordinal of the mu and sigma it came in with.
C26_RanksCountPlayersAhead ==
  osPhase \in {"rated", "returned"} =>
    /\ DOMAIN osRanks = DOMAIN OsSorted
    /\ \A i \in DOMAIN OsSorted :
         osRanks[i] = 1 + Cardinality(StrictlyAhead(OsSorted[i].position))
    /\ \A i \in 1..(Len(OsSorted) - 1) :
         /\ ~PosLess(OsSorted[i + 1].position, OsSorted[i].position)
         /\ osRanks[i] <= osRanks[i + 1]
    /\ \A i, j \in DOMAIN OsSorted :
         (osRanks[i] = osRanks[j]) <=> PosEq(OsSorted[i].position, OsSorted[j].position)
    /\ osPhase = "returned" =>
         /\ DOMAIN osResults = IdsOf(osPlayers)
         /\ \A i \in DOMAIN osPlayers :
              LET p == osPlayers[i]
                  new == osUpdated[OsIndexOf(p.id)]
              IN  /\ osResults[p.id].mu = new.mu
                  /\ osResults[p.id].sigma = new.sigma
                  /\ osResults[p.id].ordinal = osOrdinal(new)
                  /\ osResults[p.id].change =
                       osResults[p.id].ordinal - osOrdinal([mu |-> p.mu, sigma |-> p.sigma])

\* Three players, two of them tied ahead of the third, listed out of order,
\* and a rating that moved.
C26_Witness ==
  /\ osPhase = "returned"
  /\ Len(osPlayers) = MaxField
  /\ \E i, j \in DOMAIN OsSorted :
       /\ i < j
       /\ osRanks[i] = osRanks[j]
       /\ \E k \in DOMAIN OsSorted : osRanks[k] > j
  /\ PosLess(osPlayers[2].position, osPlayers[1].position)
  /\ \E id \in DOMAIN osResults : osResults[id].change # 0

(***************************************************************************)
(* Concurrent submitGame calls that share a player.                        *)
(***************************************************************************)
\* The changes game_results records for one player, summed.
EloChangesRecorded(p) ==
  SumSeq([k \in DOMAIN ResultsOf(p) |-> ResultsOf(p)[k].elo_change])

CfChangesRecorded(p) ==
  SumSeq([k \in DOMAIN ResultsOf(p) |-> ResultsOf(p)[k].cf_change])

\* The stored ratings are the ratings before the calls plus the recorded changes.
StoredIsSumOfChanges(p) ==
  /\ players[p].initial_elo = createPlayer.initial_elo + EloChangesRecorded(p)
  /\ players[p].cf_rating = createPlayer.cf_rating + CfChangesRecorded(p)

\* The call is about to update the row of a player, and the before-value it
\* will record is the rating the row holds.
UpdatesWhatItRead ==
  call.pc = "updatePlayers" =>
    LET pid == call.normalized[call.idx].playerId
    IN  /\ call.fetched[pid].initial_elo = players[pid].initial_elo
        /\ call.fetched[pid].cf_rating = players[pid].cf_rating

\* C27: when two submitGame calls that share a player run concurrently, no
\* rating update is lost: after both have completed, the player's stored Elo
\* and CF rating equal the values before both calls plus the sum of the two
\* changes recorded in game_results, and the before-value each call records
\* is the rating stored when its update is applied.
C27_NoRatingUpdateLost ==
  /\ UpdatesWhatItRead
  /\ AllCallsFinished => \A p \in DOMAIN players : StoredIsSumOfChanges(p)

\* The same for calls made one after the other, none of whose database calls
\* returned an error.
NoRatingUpdateLostInSequence ==
  faults = 0 =>
    /\ UpdatesWhatItRead
    /\ AllSubmissionsSucceeded => \A p \in DOMAIN players : StoredIsSumOfChanges(p)

(***************************************************************************)
(* submitGame when it throws.                                              *)
(***************************************************************************)
\* The ratings submitGame writes in its loop are those the call fetched.
RatingsAsFetched ==
  \A pid \in DOMAIN call.fetched :
    /\ players[pid].initial_elo = call.fetched[pid].initial_elo
    /\ players[pid].cf_rating = call.fetched[pid].cf_rating
    /\ players[pid].os_mu = call.fetched[pid].os_mu
    /\ players[pid].os_sigma = call.fetched[pid].os_sigma
    /\ players[pid].os_ordinal = call.fetched[pid].os_ordinal

\* The game row the call created, if it created one, has result rows.
GameOfCallHasResults ==
  call.gameId # 0 => \E i \in DOMAIN gameResults : gameResults[i].game_id = call.gameId

\* C28: submitGame is all-or-nothing: whenever it throws (failure to fetch
\* players, to create the game row, or to insert the game_results rows), no
\* player's stored rating has been changed by that call and no game row is
\* left without its result rows.
C28_ThrowLeavesNothingBehind ==
  call.pc = "thrown" => (RatingsAsFetched /\ GameOfCallHasResults)

\* The same for the throws that come before the game row is created.
ThrowBeforeInsertLeavesNothingBehind ==
  (call.pc = "thrown" /\ call.error # "Failed to save results")
    => (RatingsAsFetched /\ GameOfCallHasResults)

(***************************************************************************)
(* Failures inside recomputeWHR.                                           *)
(***************************************************************************)
WhrIsNull(row) == row.whr_before = Null /\ row.whr_after = Null /\ row.whr_change = Null

\* The rows of the game the call created.
RowsOfCall(table) == {i \in DOMAIN table : table[i].game_id = call.gameId}

\* A row, and a player, with the WHR fields left out.
NonWhrOfRow(row) ==
  [row EXCEPT !.whr_before = Null, !.whr_after = Null, !.whr_change = Null]

NonWhrOfPlayer(player) == [player EXCEPT !.whr_rating = Null]

\* The call is back from a recomputeWHR that threw.
RecomputeFailed == call.pc = "returned" /\ call.error = NonFatal

\* C29, as stated: a failure inside recomputeWHR never fails the submission,
\* the results and ratings written earlier remain, and the WHR fields of the
\* new game keep the value they had (null) until a later successful
\* recomputation.  Here: once the call is back from a recomputeWHR that
\* failed, the rows of its game hold null WHR fields.
C29_NewGameWhrStaysNull ==
  RecomputeFailed => \A i \in RowsOfCall(gameResults) : WhrIsNull(gameResults[i])

\* One step of a call that is inside recomputeWHR.
RecomputeStep ==
  call.pc \in WhrPcs =>
    /\ call'.pc \in WhrPcs \cup {"returned"}
    /\ call'.gameId = call.gameId
    /\ call.gameId \in DOMAIN games
    /\ games' = games
    /\ DOMAIN gameResults' = DOMAIN gameResults
    /\ RowsOfCall(gameResults) # {}
    /\ \A i \in DOMAIN gameResults : NonWhrOfRow(gameResults'[i]) = NonWhrOfRow(gameResults[i])
    /\ DOMAIN players' = DOMAIN players
    /\ \A p \in DOMAIN players : NonWhrOfPlayer(players'[p]) = NonWhrOfPlayer(players[p])
    /\ faults' # faults => (gameResults' = gameResults /\ players' = players)
    /\ (faults' # faults /\ call.pc \in {"readGames", "readResults"}) =>
         /\ call'.pc = "returned"
         /\ \A i \in RowsOfCall(gameResults) : WhrIsNull(gameResults'[i])

\* C29, amended: the submission never fails, what was written earlier
\* remains, a step of recomputeWHR that fails writes nothing, and the WHR
\* fields of the new game are still null when the failure is at one of the
\* two reads.
C29_RecomputeFailureIsNotFatal == [][RecomputeStep]_vars

\* The call is back with its game id from a recomputeWHR that threw at a
\* read: the ratings have moved, the rows of the game are there, their WHR
\* fields are null.
C29_Witness ==
  /\ RecomputeFailed
  /\ call.allResults = <<>>
  /\ call.gameId \in DOMAIN games
  /\ RowsOfCall(gameResults) # {}
  /\ \A i \in RowsOfCall(gameResults) :
       /\ WhrIsNull(gameResults[i])
       /\ players[gameResults[i].player_id].initial_elo = gameResults[i].elo_after
       /\ gameResults[i].elo_change # 0

(***************************************************************************)
(* The sums of calculateCFChanges over a field.                            *)
(***************************************************************************)
CfCount == Len(cfPlayers)

\* The expected ranks of the field, summed, in 1/ScoreScale.
ExpectedRankSum ==
  SumSeq([i \in DOMAIN cfPlayers |-> ExpectedRankOver(cfPlayers[i], cfPlayers, 1)])

\* The least denominator all positions of the field can be written over.
PositionDen ==
  CHOOSE d \in 1..(MaxLen * (MaxLen - 1)) :
    /\ \A i \in DOMAIN cfPlayers : d % cfPlayers[i].position.den = 0
    /\ \A e \in 1..(d - 1) : \E i \in DOMAIN cfPlayers : e % cfPlayers[i].position.den # 0

\* The positions of the field, summed, in 1/PositionDen.
PositionSum ==
  SumSeq([i \in DOMAIN cfPlayers |->
            cfPlayers[i].position.num * (PositionDen \div cfPlayers[i].position.den)])

\* The unrounded deltas, summed, in 1/(PositionDen * DeltaScale).
DeltaSum ==
  SumSeq([i \in DOMAIN cfDeltas |->
            cfDeltas[i].num * ((PositionDen * DeltaScale) \div cfDeltas[i].den)])

SameK ==
  \A i, j \in DOMAIN cfPlayers :
    getKFactor(cfPlayers[i].gamesPlayed) = getKFactor(cfPlayers[j].gamesPlayed)

PositionsArePermutation ==
  \A n \in 1..CfCount : \E i \in DOMAIN cfPlayers : PosEq(cfPlayers[i].position, PosOfInt(n))

\* C30: in calculateCFChanges the expected ranks of all N participants sum
\* to N(N+1)/2, so when all participants have the same K and the positions
\* are a permutation of 1..N the unrounded deltas sum to zero; when the
\* positions are averaged ones whose sum differs from N(N+1)/2, the unrounded
\* deltas do not sum to zero.
C30_ExpectedRanksSumToTriangle ==
  cfPhase = "returned" =>
    /\ 2 * ExpectedRankSum = ScoreScale * CfCount * (CfCount + 1)
    /\ SameK =>
         /\ PositionsArePermutation => DeltaSum = 0
         /\ 2 * PositionSum # PositionDen * CfCount * (CfCount + 1) => DeltaSum # 0

\* Three players of unequal ratings and the same K finishing 1, 2, 3 in some
\* order, with deltas that are not all zero.
C30_Witness ==
  /\ cfPhase = "returned"
  /\ CfCount = MaxField
  /\ SameK
  /\ PositionsArePermutation
  /\ \E i, j \in DOMAIN cfPlayers : cfPlayers[i].rating # cfPlayers[j].rating
  /\ \E i \in DOMAIN cfDeltas : cfDeltas[i].num # 0
  /\ DeltaSum = 0

\* A field with an averaged position, the same K, and deltas that sum to
\* something else than zero.
AveragedPositionsDoNotCancel ==
  /\ cfPhase = "returned"
  /\ SameK
  /\ \E i \in DOMAIN cfPlayers : cfPlayers[i].position.den > 1
  /\ 2 * PositionSum # PositionDen * CfCount * (CfCount + 1)
  /\ DeltaSum # 0

=============================================================================
